---- MODULE Spec2Model ----
(***************************************************************************)
(* A model of quart-db's migration engine (src/quart_db/_migration.py and  *)
(* QuartDB.before_serving / QuartDB.migrate in src/quart_db/extension.py)  *)
(* and of the transaction scopes of its connection adapters                *)
(* (src/quart_db/backends/*.py).                                           *)
(*                                                                         *)
(* Every host process ("instance") has a main coroutine that runs          *)
(* migrate() and, when the background phase is scheduled with              *)
(* add_background_task, a second coroutine ("task").  Each engine function *)
(* works on a migration connection of its own, so each coroutine owns at   *)
(* most one database session and one open database transaction.  One      *)
(* action is one step between two suspension points of a coroutine.        *)
(***************************************************************************)
EXTENDS Integers, Sequences, FiniteSets, TLC

\* ---------------------------------------------------------------- bounds
MaxUnit == 2        \* migration units carry the versions 0..MaxUnit
MaxRuns == 2        \* engine runs one instance makes
NStmts == 2         \* statements a unit's migrate() issues on the connection
MaxDepth == 3       \* transaction scopes nested on one connection
MaxScopes == 3      \* transaction scopes entered on one connection
MaxTaskScopes == 2  \* scopes each task opens on a shared connection
MaxTaskOps == 1     \* statements each task executes on a shared connection
MaxList == 2         \* values in a sequence of arguments
MaxRows == 2         \* rows in the table when a query method is called
MaxSets == 2         \* value-sets of one execute_many call
MaxOps == 2         \* statements executed on one connection

\* Requests served at the same time, tasks using connection() at the same
\* time, and connections a backend hands out in one behaviour.
MaxRequests == 2
MaxUsers == 2
MaxConns == 3

Versions == 0 .. MaxUnit
Phases == {"foreground", "background"}
Inst == {1, 2}
Thread == Inst \X {"main", "task"}
Main(i) == <<i, "main">>
Task(i) == <<i, "task">>

\* The local migration folders considered: the gap-free prefixes 0..k and the
\* folders that lack exactly unit 1.
UnitSets == {0 .. k : k \in -1 .. MaxUnit} \cup {Versions \ {1}}

VARIABLES
    cfg,    \* configuration of the deployment, fixed for a behaviour
    db,     \* the committed contents of the database
    th,     \* the coroutines: position, session and open transaction
    inst,   \* per instance: run number, entry point, operations invoked
    hist,   \* history: committed counter increments per version
    tx,     \* one connection: its session and the transaction scopes open on it
    sh,     \* one connection shared by several tasks: session, lock, tasks
    op,     \* one call of a connection's query methods: arguments and result
    rq      \* the backend's connections, the requests and the connection() scopes

vars == <<cfg, db, th, inst, hist, tx, sh, op, rq>>

\* ------------------------------------------------------------- coroutines
IdleThread ==
    [pc |-> "off", phase |-> "none", conn |-> "none", intx |-> FALSE,
     scope |-> "none", lk |-> "none", readv |-> -2, unit |-> -1,
     stmts |-> 0, wrote |-> FALSE, final |-> FALSE, err |-> "none",
     gen |-> "none", version |-> -1]

\* The transaction a session holds is gone: its statements are discarded and
\* its locks are freed.
NoTransaction(r) ==
    [r EXCEPT !.intx = FALSE, !.lk = "none", !.stmts = 0, !.wrote = FALSE]

\* supports_for_update of the adapter the backend hands out.
supports_for_update == cfg.forUpdate

for_update == IF supports_for_update THEN "row" ELSE "shared"

Exists(i, v) == v \in cfg.units[i]

Counter(d, p) == IF p = "foreground" THEN d.foreground ELSE d.background

\* Another session holds the lock a FOR UPDATE read waits for.
RowLocked(t) == \E u \in Thread \ {t} : th[u].lk = "row"
\* SQLite: another session holds the write (RESERVED) lock.
WriteLocked(t) == \E u \in Thread \ {t} : th[u].lk = "reserved"
\* SQLite: another session holds a read or write lock, so COMMIT cannot get
\* the exclusive lock.
Shared(t) == \E u \in Thread \ {t} : th[u].lk \in {"shared", "reserved"}

\* Some other session holds a lock on the state table (DROP TABLE waits).
TableLocked(t) == \E u \in Thread \ {t} : th[u].lk # "none"

\* ------------------------------------------------- a connection's session
Adapters == {"aiosqlite", "asyncpg", "psycopg"}

\* What an `async with` body can let escape: an error, or the cancellation of
\* the task at one of the body's awaits.
Excs == {"error", "cancelled"}

\* The session of a connection: whether a transaction is open on it, the
\* savepoints live in it (name and the pending statements at that point), the
\* statements pending in the open transaction and the statements committed.
IdleSession ==
    [in_transaction |-> FALSE, savepoints |-> <<>>, pending |-> 0,
     committed |-> 0]

NoExit ==
    [exited |-> FALSE, force_rollback |-> FALSE, exc |-> "none",
     commits |-> 0, rollbacks |-> 0]

\* No task shares a connection, no query method is being called.
NoShared == [adapter |-> "none"]

NoCall == [method |-> "none"]

NoRequests == [class |-> "none"]

\* A connection nobody has used yet: no scope open, nothing raised.  entry
\* remembers, for each open scope, the session as it was when the scope was
\* entered; scopes counts the start() calls, ended the commit() and
\* rollback() calls.
NewConnection(a) ==
    [adapter |-> a, session |-> IdleSession, stack |-> <<>>, pc |-> "body",
     raised |-> "none", last |-> NoExit, scopes |-> 0, ops |-> 0,
     entry |-> <<>>, ended |-> 0]

\* ------------------------------------------------------------------ Init
InitDb ==
    {[tbl |-> "absent", legacy |-> -1, rows |-> 0, foreground |-> -1,
      background |-> -1, data_loaded |-> FALSE,
      stmts |-> [v \in Versions |-> 0], seeds |-> 0]}
    \cup
    {[tbl |-> "legacy", legacy |-> l, rows |-> 1, foreground |-> -1,
      background |-> -1, data_loaded |-> FALSE,
      stmts |-> [v \in Versions |-> IF v <= l THEN NStmts ELSE 0], seeds |-> 0]
     : l \in Versions}

InitInst ==
    [run |-> 0, mode |-> "serve", calls |-> {}, connected |-> FALSE,
     again |-> FALSE]

InitCommon ==
    /\ db \in InitDb
    /\ th = [t \in Thread |-> IdleThread]
    /\ inst = [i \in Inst |-> InitInst]
    /\ hist = [incs |-> [p \in Phases |-> [v \in Versions |->
                           IF db.tbl = "legacy" /\ v <= db.legacy THEN 1 ELSE 0]]]
    /\ tx = NewConnection(IF supports_for_update THEN "asyncpg" ELSE "aiosqlite")
    /\ sh = NoShared
    /\ op = NoCall
    /\ rq = NoRequests

\* One instance that is started MaxRuns times, on either kind of backend.
Init ==
    /\ cfg \in [forUpdate : BOOLEAN, units : [Inst -> UnitSets],
                hooks : {{}, {0}}, hasData : BOOLEAN,
                modes : {{"serve", "cli"}},
                runs : {[i \in Inst |-> IF i = 1 THEN MaxRuns ELSE 0]}]
    /\ cfg.units[2] = {}
    /\ InitCommon

\* Two instances, each started once through the db-migrate command, racing
\* on a backend with row locks.
InitRace ==
    /\ cfg \in [forUpdate : {TRUE}, units : [Inst -> UnitSets],
                hooks : {{0}}, hasData : {TRUE}, modes : {{"cli"}},
                runs : {[i \in Inst |-> 1]}]
    /\ cfg.units[1] = cfg.units[2]
    /\ InitCommon

\* --------------------------------------------------------------- StartRun
\* The process of instance i (re)starts and enters migrate(): through
\* before_serving ("serve": wait_for, background task, connect) or through the
\* db-migrate command ("cli": force_foreground).  A restart ends whatever the
\* previous process still had open: its sessions are closed by the server.
\* The previous run of instance i went through every phase without an error.
Settled(i) ==
    /\ th[Main(i)].pc \in {"done", "serving"}
    /\ inst[i].mode = "serve" => th[Task(i)].pc = "done"

StartRun(i) ==
    /\ th[Main(i)].pc \in {"off", "done", "failed", "serving"}
    /\ inst[i].run < cfg.runs[i]
    /\ \E m \in cfg.modes :
         inst' = [inst EXCEPT ![i] = [run |-> @.run + 1, mode |-> m,
                                       calls |-> {}, connected |-> FALSE,
                                       again |-> Settled(i)]]
    /\ th' = [th EXCEPT ![Main(i)] = [IdleThread EXCEPT !.pc = "b_select",
                                         !.phase = "boot", !.conn = "open"],
                        ![Task(i)] = IdleThread]
    /\ UNCHANGED <<rq, sh, op, tx, cfg, db, hist>>

\* ------------------------------------------------------ ensure_state_table
\* SELECT version FROM state_table: succeeds on a legacy table only.
BootSelect(t) ==
    /\ th[t].pc = "b_select"
    /\ th' = [th EXCEPT ![t] =
                IF db.tbl = "legacy"
                THEN [@ EXCEPT !.version = db.legacy, !.pc = "b_drop"]
                ELSE [@ EXCEPT !.version = -1, !.pc = "b_create"]]
    /\ UNCHANGED <<rq, sh, op, tx, cfg, db, inst, hist>>

\* DROP TABLE state_table, outside the try block: when the table is gone the
\* error leaves ensure_state_table without releasing the connection.
BootDrop(t) ==
    /\ th[t].pc = "b_drop"
    /\ ~TableLocked(t)
    /\ IF db.tbl = "absent"
       THEN /\ th' = [th EXCEPT ![t] = [@ EXCEPT !.pc = "failed", !.err = "database"]]
            /\ db' = db
       ELSE /\ th' = [th EXCEPT ![t] = [@ EXCEPT !.pc = "b_create"]]
            /\ db' = [db EXCEPT !.tbl = "absent", !.rows = 0]
    /\ UNCHANGED <<rq, sh, op, tx, cfg, inst, hist>>

\* CREATE TABLE IF NOT EXISTS state_table (new shape).
BootCreate(t) ==
    /\ th[t].pc = "b_create"
    /\ db' = IF db.tbl = "absent" THEN [db EXCEPT !.tbl = "new", !.rows = 0] ELSE db
    /\ th' = [th EXCEPT ![t] = [@ EXCEPT !.pc = "b_insert"]]
    /\ UNCHANGED <<rq, sh, op, tx, cfg, inst, hist>>

\* A faulty variant: an INSERT that replaces the row that is there.
Inserted_replace(d, version) ==
    [d EXCEPT !.rows = 1, !.foreground = version, !.background = version,
              !.data_loaded = FALSE]

\* A faulty variant: the INSERT always writes the default row.
Inserted_default(d, version) ==
    IF d.rows = 0
    THEN [d EXCEPT !.rows = 1, !.foreground = -1, !.background = -1,
                   !.data_loaded = FALSE]
    ELSE d

\* INSERT (background, data_loaded, foreground) VALUES (version, FALSE,
\* version) ON CONFLICT DO NOTHING.
Inserted(d, version) ==
    IF d.rows = 0
    THEN [d EXCEPT !.rows = 1, !.foreground = version, !.background = version,
                   !.data_loaded = FALSE]
    ELSE d

BootInsert(t) ==
    /\ th[t].pc = "b_insert"
    /\ IF db.tbl # "new"
       THEN /\ th' = [th EXCEPT ![t] = [@ EXCEPT !.pc = "b_release", !.err = "database"]]
            /\ db' = db
       ELSE /\ th' = [th EXCEPT ![t] = [@ EXCEPT !.pc = "b_release"]]
            /\ db' = Inserted(db, th[t].version)
    /\ UNCHANGED <<rq, sh, op, tx, cfg, inst, hist>>

\* finally: release the migration connection; migrate() goes on to the
\* foreground phase.
BootRelease(t) ==
    /\ th[t].pc = "b_release"
    /\ th' = [th EXCEPT ![t] =
                IF th[t].err = "none"
                THEN [IdleThread EXCEPT !.pc = "acquire", !.phase = "foreground"]
                ELSE [@ EXCEPT !.pc = "failed", !.conn = "closed"]]
    /\ UNCHANGED <<rq, sh, op, tx, cfg, db, inst, hist>>

\* ------------------------------------------- the phases of the engine
\* What migrate() does after a phase function returns normally.
\* extension.py 152-176: foreground, then background (awaited with
\* force_foreground, otherwise left to add_background_task), then the loader.
\* before_serving then calls backend.connect(); the command just ends.
AfterLoader(i) == IF inst[i].mode = "serve" THEN "connect" ELSE "done"

AfterBackground(i) ==
    IF cfg.hasData
    THEN [IdleThread EXCEPT !.pc = "acquire", !.phase = "loader"]
    ELSE [IdleThread EXCEPT !.pc = AfterLoader(i)]

\* A faulty variant: a failed foreground phase still hands the background
\* phase to a task.
Leave_starts_task(t, r) ==
    LET i == t[1] IN
    IF r.err # "none"
    THEN IF t[2] = "main" /\ r.phase = "foreground"
         THEN [th EXCEPT ![t] = [r EXCEPT !.pc = "failed"],
                         ![Task(i)] = [IdleThread EXCEPT !.pc = "acquire",
                                                        !.phase = "background"]]
         ELSE [th EXCEPT ![t] = [r EXCEPT !.pc = "failed"]]
    ELSE IF t[2] = "task"
    THEN [th EXCEPT ![t] = [r EXCEPT !.pc = "done"]]
    ELSE IF r.phase = "foreground"
    THEN IF inst[i].mode = "cli"
         THEN [th EXCEPT ![t] = [IdleThread EXCEPT !.pc = "acquire",
                                                   !.phase = "background"]]
         ELSE [th EXCEPT ![t] = AfterBackground(i),
                         ![Task(i)] = [IdleThread EXCEPT !.pc = "acquire",
                                                        !.phase = "background"]]
    ELSE IF r.phase = "background"
    THEN [th EXCEPT ![t] = AfterBackground(i)]
    ELSE [th EXCEPT ![t] = [IdleThread EXCEPT !.pc = AfterLoader(i)]]

\* A faulty variant: the failure of the background task fails the main
\* coroutine too.
Leave_task_fails_main(t, r) ==
    LET i == t[1] IN
    IF r.err # "none"
    THEN IF t[2] = "task"
         THEN [th EXCEPT ![t] = [r EXCEPT !.pc = "failed"],
                         ![Main(i)] = [@ EXCEPT !.pc = "failed", !.err = r.err]]
         ELSE [th EXCEPT ![t] = [r EXCEPT !.pc = "failed"]]
    ELSE IF t[2] = "task"
    THEN [th EXCEPT ![t] = [r EXCEPT !.pc = "done"]]
    ELSE IF r.phase = "foreground"
    THEN IF inst[i].mode = "cli"
         THEN [th EXCEPT ![t] = [IdleThread EXCEPT !.pc = "acquire",
                                                   !.phase = "background"]]
         ELSE [th EXCEPT ![t] = AfterBackground(i),
                         ![Task(i)] = [IdleThread EXCEPT !.pc = "acquire",
                                                        !.phase = "background"]]
    ELSE IF r.phase = "background"
    THEN [th EXCEPT ![t] = AfterBackground(i)]
    ELSE [th EXCEPT ![t] = [IdleThread EXCEPT !.pc = AfterLoader(i)]]

\* th after coroutine t left a phase function: `r` is its state on leaving.
Leave(t, r) ==
    LET i == t[1] IN
    IF r.err # "none"
    THEN [th EXCEPT ![t] = [r EXCEPT !.pc = "failed"]]
    ELSE IF t[2] = "task"
    THEN [th EXCEPT ![t] = [r EXCEPT !.pc = "done"]]
    ELSE IF r.phase = "foreground"
    THEN IF inst[i].mode = "cli"
         THEN [th EXCEPT ![t] = [IdleThread EXCEPT !.pc = "acquire",
                                                   !.phase = "background"]]
         ELSE [th EXCEPT ![t] = AfterBackground(i),
                         ![Task(i)] = [IdleThread EXCEPT !.pc = "acquire",
                                                        !.phase = "background"]]
    ELSE IF r.phase = "background"
    THEN [th EXCEPT ![t] = AfterBackground(i)]
    ELSE [th EXCEPT ![t] = [IdleThread EXCEPT !.pc = AfterLoader(i)]]

\* backend._acquire_migration_connection(), first line of each phase function.
Acquire(t) ==
    /\ th[t].pc = "acquire"
    /\ th' = [th EXCEPT ![t] =
                [@ EXCEPT !.pc = "start", !.conn = "open",
                          !.gen = IF th[t].phase = "loader" THEN "none" ELSE "running"]]
    /\ UNCHANGED <<rq, sh, op, tx, cfg, db, inst, hist>>

\* Transaction.__aenter__ -> start(): BEGIN on the session; the scope is
\* entered.  In _migration_generator this is the head of the while loop.
Start(t) ==
    /\ th[t].pc = "start"
    /\ th' = [th EXCEPT ![t] =
                [@ EXCEPT !.pc = "read", !.intx = TRUE, !.scope = "open",
                          !.final = FALSE, !.unit = -1, !.readv = -2]]
    /\ UNCHANGED <<rq, sh, op, tx, cfg, db, inst, hist>>

\* A faulty variant: the next version skips one.
NextVersion_skip(c) == c + 2

\* 95: migration += 1
NextVersion(c) == c + 1

\* Faulty variants: the test without the look at the unit before, and no
\* test at all.
Ahead_always(i, migration) == migration > 0

Ahead_never(i, migration) == FALSE

\* 100: the unit before the missing one is missing too.
Ahead(i, migration) == migration > 0 /\ ~Exists(i, migration - 1)

\* _migration_generator 92-105: read the phase counter (FOR UPDATE when the
\* adapter supports it), add one, load the unit of that version; yield it, or
\* return when it is absent, or raise when the one before is absent too.
\* No suspension point lies between the read and the yield.
ReadCounter(t) ==
    LET i == t[1]
        p == th[t].phase
        migration == NextVersion(Counter(db, p))
    IN
    /\ th[t].pc = "read"
    /\ p \in {"foreground", "background"}
    /\ supports_for_update => ~RowLocked(t)
    /\ th' = [th EXCEPT ![t] =
         IF db.tbl # "new" \/ db.rows = 0
         THEN [@ EXCEPT !.pc = "rollback", !.err = "database"]
         ELSE IF Exists(i, migration)
         THEN [@ EXCEPT !.pc = "body", !.gen = "suspended", !.lk = for_update,
                        !.readv = Counter(db, p), !.unit = migration]
         ELSE IF Ahead(i, migration)
         THEN [@ EXCEPT !.pc = "rollback", !.err = "ahead", !.lk = for_update,
                        !.readv = Counter(db, p)]
         ELSE [@ EXCEPT !.pc = "commit", !.final = TRUE, !.lk = for_update,
                        !.readv = Counter(db, p)]]
    /\ UNCHANGED <<rq, sh, op, tx, cfg, db, inst, hist>>

\* A faulty variant: the background phase applies the unit itself.
Operation_apply(p) == "migrate"

\* The operation a phase invokes on the yielded unit.
\* execute_foreground_migrations 23: module.migrate;
\* execute_background_migrations 43: getattr(module, "background_migrate").
Operation(p) == IF p = "foreground" THEN "migrate" ELSE "background_migrate"

Invoke(i, p, v) ==
    [inst EXCEPT ![i] = [@ EXCEPT !.calls = @ \cup {<<p, Operation(p), v>>}]]

\* One statement of module.migrate(connection).  On SQLite a write needs the
\* database's write lock.
MigrateStmt(t) ==
    /\ th[t].pc = "body"
    /\ th[t].phase = "foreground"
    /\ th[t].stmts < NStmts
    /\ ~supports_for_update => ~WriteLocked(t)
    /\ th' = [th EXCEPT ![t] =
                [@ EXCEPT !.stmts = @ + 1,
                          !.lk = IF supports_for_update THEN @ ELSE "reserved",
                          !.pc = IF th[t].stmts + 1 = NStmts THEN "valid" ELSE "body"]]
    /\ inst' = Invoke(t[1], "foreground", th[t].unit)
    /\ UNCHANGED <<rq, sh, op, tx, cfg, db, hist>>

\* module.migrate raises (also: SQLite refuses the write lock).  The error is
\* raised in the body of the async for, not in the generator: the generator
\* stays suspended at its yield, inside its transaction scope.
MigrateRaise(t) ==
    /\ th[t].pc = "body"
    /\ th[t].phase = "foreground"
    /\ th' = [th EXCEPT ![t] = [@ EXCEPT !.pc = "release", !.err = "apply",
                                         !.gen = "orphan"]]
    /\ inst' = Invoke(t[1], "foreground", th[t].unit)
    /\ UNCHANGED <<rq, sh, op, tx, cfg, db, hist>>

\* execute_foreground_migrations 24-28: valid_migration, when declared.
Valid(t) ==
    /\ th[t].pc = "valid"
    /\ \E valid \in BOOLEAN :
         th' = [th EXCEPT ![t] =
                  IF valid
                  THEN [@ EXCEPT !.pc = "update", !.gen = "running"]
                  ELSE [@ EXCEPT !.pc = "release", !.err = "invalid",
                                 !.gen = "orphan"]]
    /\ UNCHANGED <<rq, sh, op, tx, cfg, db, inst, hist>>

\* execute_background_migrations 43-45: the unit's background_migrate, when it
\* has one; nothing otherwise.
Background(t) ==
    /\ th[t].pc = "body"
    /\ th[t].phase = "background"
    /\ IF th[t].unit \in cfg.hooks
       THEN /\ inst' = Invoke(t[1], "background", th[t].unit)
            /\ \E ok \in BOOLEAN :
                 th' = [th EXCEPT ![t] =
                          IF ok
                          THEN [@ EXCEPT !.pc = "update", !.gen = "running"]
                          ELSE [@ EXCEPT !.pc = "release", !.err = "hook",
                                         !.gen = "orphan"]]
       ELSE /\ inst' = inst
            /\ th' = [th EXCEPT ![t] = [@ EXCEPT !.pc = "update", !.gen = "running"]]
    /\ UNCHANGED <<rq, sh, op, tx, cfg, db, hist>>

\* _migration_generator 107-110 / execute_data_loader 70: the UPDATE of the
\* state row, pending until the transaction commits.
Update(t) ==
    /\ th[t].pc = "update"
    /\ ~supports_for_update => ~WriteLocked(t)
    /\ th' = [th EXCEPT ![t] =
                [@ EXCEPT !.pc = "commit", !.wrote = TRUE,
                          !.lk = IF supports_for_update THEN @ ELSE "reserved"]]
    /\ UNCHANGED <<rq, sh, op, tx, cfg, db, inst, hist>>

\* SQLite answers "database is locked" when the lock a statement needs is
\* held by another session: the statement raises where it was issued.
Busy(t) ==
    /\ ~supports_for_update
    /\ \/ /\ th[t].pc = "body" /\ th[t].phase = "foreground" /\ WriteLocked(t)
          /\ th' = [th EXCEPT ![t] = [@ EXCEPT !.pc = "release", !.err = "busy",
                                               !.gen = "orphan"]]
       \/ /\ th[t].pc = "update" /\ WriteLocked(t)
          /\ th' = [th EXCEPT ![t] = [@ EXCEPT !.pc = "rollback", !.err = "busy"]]
       \/ /\ th[t].pc = "commit" /\ th[t].lk = "reserved" /\ Shared(t)
          /\ th' = [th EXCEPT ![t] = [@ EXCEPT !.pc = "release", !.err = "busy",
                                               !.scope = "exited",
                                               !.gen = IF @ = "none" THEN @ ELSE "closed"]]
    /\ UNCHANGED <<rq, sh, op, tx, cfg, db, inst, hist>>

\* A faulty variant: a COMMIT that loses the UPDATE of the state row.
Committed_nocounter(d, r) ==
    IF r.stmts > 0 /\ r.unit \in Versions
    THEN [d EXCEPT !.stmts[r.unit] = @ + r.stmts] ELSE d

\* The statements of transaction r, made durable.
Committed(d, r) ==
    LET d1 == IF r.stmts > 0 /\ r.unit \in Versions
              THEN [d EXCEPT !.stmts[r.unit] = @ + r.stmts] ELSE d
    IN  IF ~r.wrote THEN d1
        ELSE IF r.phase = "foreground" THEN [d1 EXCEPT !.foreground = r.unit]
        ELSE IF r.phase = "background" THEN [d1 EXCEPT !.background = r.unit]
        ELSE [d1 EXCEPT !.data_loaded = TRUE, !.seeds = @ + 1]

Recorded(h, r) ==
    IF r.wrote /\ r.phase \in Phases /\ r.unit \in Versions
    THEN [h EXCEPT !.incs[r.phase][r.unit] = @ + 1] ELSE h

\* Transaction.__aexit__ without an exception -> commit().  The generator
\* then loops (next unit) or, after its return, ends; the loader ends.
Commit(t) ==
    /\ th[t].pc = "commit"
    /\ (~supports_for_update /\ th[t].lk = "reserved") => ~Shared(t)
    /\ db' = Committed(db, th[t])
    /\ hist' = Recorded(hist, th[t])
    /\ th' = [th EXCEPT ![t] =
                [NoTransaction(@) EXCEPT
                    !.scope = "exited",
                    !.pc = IF th[t].final THEN "release" ELSE "start",
                    !.gen = IF th[t].final /\ @ # "none" THEN "closed" ELSE @]]
    /\ UNCHANGED <<rq, sh, op, tx, cfg, inst>>

\* Transaction.__aexit__ with an exception -> rollback(); the exception then
\* leaves the generator (or the loader's scope) and reaches the finally.
Rollback(t) ==
    /\ th[t].pc = "rollback"
    /\ th' = [th EXCEPT ![t] =
                [NoTransaction(@) EXCEPT
                    !.scope = "exited", !.pc = "release",
                    !.gen = IF @ = "none" THEN @ ELSE "closed"]]
    /\ UNCHANGED <<rq, sh, op, tx, cfg, db, inst, hist>>

\* A faulty variant: closing the session commits what is pending.
Aborted_commits(d, r) == Committed(d, r)

\* The database after a session was closed with transaction r open: the
\* server aborts the transaction.
Aborted(d, r) == d

\* finally: backend._release_migration_connection(connection) closes the
\* session.
Release(t) ==
    /\ th[t].pc = "release"
    /\ th' = Leave(t, [NoTransaction(th[t]) EXCEPT !.conn = "closed"])
    /\ db' = Aborted(db, th[t])
    /\ UNCHANGED <<rq, sh, op, tx, cfg, inst, hist>>

\* The event loop finalizes the generator the failed async for left behind:
\* aclose() raises GeneratorExit at the yield, and the scope's __aexit__ calls
\* rollback(), on the session if it is still open and on a closed one
\* otherwise.  When this runs relative to the finally is up to the loop.
GenFinalize(t) ==
    /\ th[t].gen = "orphan"
    /\ th' = [th EXCEPT ![t] =
                IF @.conn = "open"
                THEN [NoTransaction(@) EXCEPT !.scope = "exited", !.gen = "closed"]
                ELSE [@ EXCEPT !.scope = "late", !.gen = "closed"]]
    /\ UNCHANGED <<rq, sh, op, tx, cfg, db, inst, hist>>

\* ------------------------------------------------------ execute_data_loader
\* 60-64: read data_loaded (FOR UPDATE when supported); when it is set the
\* scope is left at once; otherwise the seed module is loaded, which raises
\* inside the scope when the file cannot be loaded.
ReadLoaded(t) ==
    /\ th[t].pc = "read"
    /\ th[t].phase = "loader"
    /\ supports_for_update => ~RowLocked(t)
    /\ \E loadable \in BOOLEAN :
         th' = [th EXCEPT ![t] =
           IF db.tbl # "new" \/ db.rows = 0
           THEN [@ EXCEPT !.pc = "rollback", !.err = "database"]
           ELSE IF db.data_loaded
           THEN [@ EXCEPT !.pc = "commit", !.final = TRUE, !.lk = for_update]
           ELSE IF loadable
           THEN [@ EXCEPT !.pc = "seed", !.final = TRUE, !.lk = for_update]
           ELSE [@ EXCEPT !.pc = "rollback", !.err = "load", !.lk = for_update]]
    /\ UNCHANGED <<rq, sh, op, tx, cfg, db, inst, hist>>

\* 65-70: module.execute(connection); an Exception it raises is replaced by
\* MigrationFailedError("Error loading data").
Seed(t) ==
    /\ th[t].pc = "seed"
    /\ inst' = [inst EXCEPT ![t[1]] =
                  [@ EXCEPT !.calls = @ \cup {<<"loader", "execute", 0>>}]]
    /\ \E ok \in BOOLEAN :
         th' = [th EXCEPT ![t] =
                  IF ok THEN [@ EXCEPT !.pc = "update"]
                  ELSE [@ EXCEPT !.pc = "rollback", !.err = "seed"]]
    /\ UNCHANGED <<rq, sh, op, tx, cfg, db, hist>>

\* -------------------------------------------------- QuartDB.before_serving
\* asyncio.wait_for(self.migrate(), timeout) expires: the main coroutine gets
\* CancelledError at the suspension point it is waiting at.  Where that point
\* lies decides which handlers see it: none around SELECT version and DROP
\* TABLE; the finally of ensure_state_table; the generator's transaction scope
\* (rollback, then the finally); or, in the body of the async for, the finally
\* alone, the generator staying suspended.  A COMMIT that is awaited when the
\* cancellation arrives has either taken effect on the server or not.
Cancelled(r) ==
    IF r.pc \in {"b_select", "b_drop", "acquire"}
    THEN [r EXCEPT !.pc = "failed", !.err = "cancelled"]
    ELSE IF r.pc \in {"b_create", "b_insert"}
    THEN [r EXCEPT !.pc = "b_release", !.err = "cancelled"]
    ELSE IF r.pc = "start"
    THEN [r EXCEPT !.pc = "release", !.err = "cancelled",
                   !.gen = IF @ = "none" THEN @ ELSE "closed"]
    ELSE IF r.pc \in {"read", "update", "seed"}
    THEN [r EXCEPT !.pc = "rollback", !.err = "cancelled"]
    ELSE IF r.pc \in {"commit", "rollback"}
    THEN [r EXCEPT !.pc = "release", !.err = "cancelled", !.scope = "exited",
                   !.gen = IF @ = "none" THEN @ ELSE "closed"]
    ELSE [r EXCEPT !.pc = "release", !.err = "cancelled", !.gen = "orphan"]

Timeout(i) ==
    /\ inst[i].mode = "serve"
    /\ th[Main(i)].pc \in {"b_select", "b_drop", "b_create", "b_insert", "acquire",
                           "start", "read", "body", "valid", "seed", "update",
                           "commit", "rollback"}
    /\ th[Main(i)].err # "cancelled"
    /\ \E done \in BOOLEAN :
         LET r == th[Main(i)]
             committed ==
                 /\ done /\ r.pc = "commit"
                 /\ (~supports_for_update /\ r.lk = "reserved") => ~Shared(Main(i))
         IN  /\ db' = IF committed THEN Committed(db, r) ELSE db
             /\ hist' = IF committed THEN Recorded(hist, r) ELSE hist
             /\ th' = [th EXCEPT ![Main(i)] =
                         Cancelled(IF committed THEN NoTransaction(r) ELSE r)]
    /\ UNCHANGED <<rq, sh, op, tx, cfg, inst>>

\* What before_serving raises when migrate() failed (135-138).
Raised(i) ==
    IF th[Main(i)].pc # "failed" THEN "none"
    ELSE IF th[Main(i)].err = "cancelled" THEN "MigrationTimeoutError"
    ELSE IF th[Main(i)].err \in {"ahead", "invalid", "seed"} THEN "MigrationFailedError"
    ELSE th[Main(i)].err

\* 139: await self._backend.connect(), reached only when migrate() returned.
Connect(i) ==
    /\ th[Main(i)].pc = "connect"
    /\ th' = [th EXCEPT ![Main(i)] = [@ EXCEPT !.pc = "serving"]]
    /\ inst' = [inst EXCEPT ![i] = [@ EXCEPT !.connected = TRUE]]
    /\ UNCHANGED <<rq, sh, op, tx, cfg, db, hist>>

Next ==
    \/ \E i \in Inst : StartRun(i)
    \/ \E t \in Thread : BootSelect(t)
    \/ \E t \in Thread : BootDrop(t)
    \/ \E t \in Thread : BootCreate(t)
    \/ \E t \in Thread : BootInsert(t)
    \/ \E t \in Thread : BootRelease(t)
    \/ \E t \in Thread : Acquire(t)
    \/ \E t \in Thread : Start(t)
    \/ \E t \in Thread : ReadCounter(t)
    \/ \E t \in Thread : MigrateStmt(t)
    \/ \E t \in Thread : MigrateRaise(t)
    \/ \E t \in Thread : Valid(t)
    \/ \E t \in Thread : Background(t)
    \/ \E t \in Thread : Update(t)
    \/ \E t \in Thread : Busy(t)
    \/ \E t \in Thread : Commit(t)
    \/ \E t \in Thread : Rollback(t)
    \/ \E t \in Thread : Release(t)
    \/ \E t \in Thread : GenFinalize(t)
    \/ \E t \in Thread : ReadLoaded(t)
    \/ \E t \in Thread : Seed(t)
    \/ \E i \in Inst : Timeout(i)
    \/ \E i \in Inst : Connect(i)

Spec == Init /\ [][Next]_vars

NextRace ==
    \/ \E i \in Inst : StartRun(i)
    \/ \E t \in Thread : BootSelect(t)
    \/ \E t \in Thread : BootDrop(t)
    \/ \E t \in Thread : BootCreate(t)
    \/ \E t \in Thread : BootInsert(t)
    \/ \E t \in Thread : BootRelease(t)
    \/ \E t \in Thread : Acquire(t)
    \/ \E t \in Thread : Start(t)
    \/ \E t \in Thread : ReadCounter(t)
    \/ \E t \in Thread : MigrateStmt(t)
    \/ \E t \in Thread : MigrateRaise(t)
    \/ \E t \in Thread : Valid(t)
    \/ \E t \in Thread : Background(t)
    \/ \E t \in Thread : Update(t)
    \/ \E t \in Thread : Commit(t)
    \/ \E t \in Thread : Rollback(t)
    \/ \E t \in Thread : Release(t)
    \/ \E t \in Thread : GenFinalize(t)
    \/ \E t \in Thread : ReadLoaded(t)
    \/ \E t \in Thread : Seed(t)

SpecRace == InitRace /\ [][NextRace]_vars

\* ------------------------------------------- the foreground phase alone
\* Instances whose bootstrap is over: the state row exists with foreground
\* counter c, the local units are 0..M without a gap, c <= M, and every
\* instance is about to enter execute_foreground_migrations through the
\* db-migrate command.  On a backend with row locks two instances run, on
\* SQLite one.  hist.start remembers c.
InitFleet ==
    /\ cfg \in [forUpdate : BOOLEAN,
                units : {[i \in Inst |-> 0 .. k] : k \in -1 .. MaxUnit},
                hooks : {{0}}, hasData : {FALSE}, modes : {{"cli"}},
                runs : {[i \in Inst |-> 1]}]
    /\ \E c \in -1 .. MaxUnit :
         /\ c < Cardinality(cfg.units[1])
         /\ db = [tbl |-> "new", legacy |-> -1, rows |-> 1, foreground |-> c,
                  background |-> c, data_loaded |-> FALSE,
                  stmts |-> [v \in Versions |-> IF v <= c THEN NStmts ELSE 0],
                  seeds |-> 0]
         /\ hist = [incs |-> [p \in Phases |-> [v \in Versions |->
                                 IF v <= c THEN 1 ELSE 0]],
                    start |-> c]
    /\ inst = [i \in Inst |->
                 IF i = 1 \/ supports_for_update
                 THEN [InitInst EXCEPT !.run = 1, !.mode = "cli"]
                 ELSE InitInst]
    /\ th = [t \in Thread |->
               IF t[2] = "main" /\ inst[t[1]].run = 1
               THEN [IdleThread EXCEPT !.pc = "acquire",
                                       !.phase = "foreground"]
               ELSE IdleThread]
    /\ tx = NewConnection(IF supports_for_update THEN "asyncpg" ELSE "aiosqlite")
    /\ sh = NoShared
    /\ op = NoCall
    /\ rq = NoRequests

\* A step of coroutine t that is not a failure of a unit.  The table and
\* its row exist and no unit is missing, so no transaction is rolled back:
\* a failing unit leaves the generator suspended inside its transaction.
Step(t) ==
    \/ Acquire(t)
    \/ Start(t)
    \/ ReadCounter(t)
    \/ MigrateStmt(t)
    \/ Valid(t)
    \/ Background(t)
    \/ Update(t)
    \/ Commit(t)
    \/ Release(t)
    \/ GenFinalize(t)

NextFleet ==
    \/ \E t \in Thread : Step(t)
    \/ \E t \in Thread : MigrateRaise(t)

SpecFleet == InitFleet /\ [][NextFleet]_vars

\* The event loop runs every coroutine that can go on and the database
\* grants the row lock once it is free.
SpecFleetFair == SpecFleet /\ \A t \in Thread : WF_vars(Step(t))

\* ===================================================================
\* Transaction scopes of a connection (backends/*.py, class Transaction)
\* ===================================================================
\* The statements the adapters send, as functions of the session.
Begin(s) == [s EXCEPT !.in_transaction = TRUE]

\* A faulty variant: every savepoint gets the same name.
Savepoint_same_name(s, name) ==
    [s EXCEPT !.savepoints = Append(@, [name |-> 1, mark |-> s.pending])]

\* SAVEPOINT marks the statements issued so far.
Savepoint(s, name) ==
    [s EXCEPT !.savepoints = Append(@, [name |-> name, mark |-> s.pending])]

\* The position of a live savepoint in the session, 0 when there is none.
Position(s, name) ==
    IF \E k \in 1 .. Len(s.savepoints) : s.savepoints[k].name = name
    THEN CHOOSE k \in 1 .. Len(s.savepoints) : s.savepoints[k].name = name
    ELSE 0

\* RELEASE SAVEPOINT removes the savepoint and every later one.
ReleaseSavepoint(s, name) ==
    IF Position(s, name) = 0 THEN s
    ELSE [s EXCEPT !.savepoints = SubSeq(@, 1, Position(s, name) - 1)]

\* A faulty variant: ROLLBACK TO SAVEPOINT undoes the whole transaction.
RollbackToSavepoint_all(s, name) ==
    IF Position(s, name) = 0 THEN s
    ELSE [s EXCEPT !.pending = 0,
                   !.savepoints = SubSeq(@, 1, Position(s, name))]

\* ROLLBACK TO SAVEPOINT undoes the statements issued since the savepoint,
\* removes the later savepoints and keeps the savepoint itself.
RollbackToSavepoint(s, name) ==
    IF Position(s, name) = 0 THEN s
    ELSE [s EXCEPT !.pending = s.savepoints[Position(s, name)].mark,
                   !.savepoints = SubSeq(@, 1, Position(s, name))]

CommitSession(s) ==
    [s EXCEPT !.in_transaction = FALSE, !.savepoints = <<>>, !.pending = 0,
              !.committed = @ + s.pending]

\* A faulty variant: ROLLBACK keeps what was pending.
RollbackSession_commits(s) == CommitSession(s)

RollbackSession(s) ==
    [s EXCEPT !.in_transaction = FALSE, !.savepoints = <<>>, !.pending = 0]

\* A statement of a body: pending in the open transaction, committed at once
\* (autocommit) when none is open.
Statement(s) ==
    IF s.in_transaction THEN [s EXCEPT !.pending = @ + 1]
    ELSE [s EXCEPT !.committed = @ + 1]

\* Transaction.__init__: the aiosqlite adapter keeps the names of its
\* savepoints, the Postgres adapters keep the driver's transaction object.
Transaction(force_rollback) ==
    [force_rollback |-> force_rollback, savepoints |-> <<>>,
     transaction |-> "none", name |-> 0, commits |-> 0, rollbacks |-> 0]

\* Transaction.start.  name stands for the uuid4 of a new savepoint.  The
\* result is the session and the transaction object after the call.
start(a, s, t, name) ==
    IF a = "aiosqlite"
    THEN IF s.in_transaction
         THEN [session |-> Savepoint(s, name),
               t |-> [t EXCEPT !.savepoints = Append(@, name)]]
         ELSE [session |-> Begin(s), t |-> t]
    ELSE IF s.in_transaction
         THEN [session |-> Savepoint(s, name),
               t |-> [t EXCEPT !.transaction = "nested", !.name = name]]
         ELSE [session |-> Begin(s), t |-> [t EXCEPT !.transaction = "top"]]

\* Transaction.commit
commit(a, s, t) ==
    IF a = "aiosqlite"
    THEN IF Len(t.savepoints) > 0
         THEN [session |-> ReleaseSavepoint(s, t.savepoints[Len(t.savepoints)]),
               t |-> [t EXCEPT !.savepoints = SubSeq(@, 1, Len(@) - 1),
                               !.commits = @ + 1]]
         ELSE [session |-> CommitSession(s), t |-> [t EXCEPT !.commits = @ + 1]]
    ELSE [session |-> IF t.transaction = "nested"
                      THEN ReleaseSavepoint(s, t.name) ELSE CommitSession(s),
          t |-> [t EXCEPT !.transaction = "none", !.commits = @ + 1]]

\* Transaction.rollback.  Of a nested level the aiosqlite adapter and
\* asyncpg's transaction send ROLLBACK TO SAVEPOINT only; psycopg's
\* transaction releases the savepoint as well.
rollback(a, s, t) ==
    IF a = "aiosqlite"
    THEN IF Len(t.savepoints) > 0
         THEN [session |-> RollbackToSavepoint(s, t.savepoints[Len(t.savepoints)]),
               t |-> [t EXCEPT !.savepoints = SubSeq(@, 1, Len(@) - 1),
                               !.rollbacks = @ + 1]]
         ELSE [session |-> RollbackSession(s),
               t |-> [t EXCEPT !.rollbacks = @ + 1]]
    ELSE [session |-> IF t.transaction # "nested" THEN RollbackSession(s)
                      ELSE IF a = "psycopg"
                           THEN ReleaseSavepoint(RollbackToSavepoint(s, t.name),
                                                 t.name)
                           ELSE RollbackToSavepoint(s, t.name),
          t |-> [t EXCEPT !.transaction = "none", !.rollbacks = @ + 1]]

\* A faulty variant: force_rollback is ignored.
RollsBack_on_failure_only(t, exc_type) == exc_type # "none"

\* The test of Transaction.__aexit__.
RollsBack(t, exc_type) == t.force_rollback \/ exc_type # "none"

\* Transaction.__aexit__: it returns None, so the exception of the body is
\* not suppressed.
aexit(a, s, t, exc_type) ==
    [suppress |-> FALSE] @@
    (IF RollsBack(t, exc_type) THEN rollback(a, s, t) ELSE commit(a, s, t))

\* `async with connection.transaction(force_rollback=f):` is entered.
Enter(f) ==
    /\ tx.pc = "body"
    /\ Len(tx.stack) < MaxDepth
    /\ tx.scopes < MaxScopes
    /\ LET r == start(tx.adapter, tx.session, Transaction(f), tx.scopes + 1)
       IN  tx' = [tx EXCEPT !.session = r.session,
                            !.stack = Append(@, r.t),
                            !.scopes = @ + 1,
                            !.entry = Append(@, tx.session)]
    /\ UNCHANGED <<rq, sh, op, cfg, db, th, inst, hist>>

\* The task executes a statement on the connection.
Execute ==
    /\ tx.pc = "body"
    /\ tx.ops < MaxOps
    /\ tx' = [tx EXCEPT !.session = Statement(@), !.ops = @ + 1]
    /\ UNCHANGED <<rq, sh, op, cfg, db, th, inst, hist>>

\* The body of the innermost scope lets an exception escape, or the task is
\* cancelled at an await of that body.
Raise(e) ==
    /\ tx.pc = "body"
    /\ Len(tx.stack) > 0
    /\ tx' = [tx EXCEPT !.pc = "raising", !.raised = e]
    /\ UNCHANGED <<rq, sh, op, cfg, db, th, inst, hist>>

\* The innermost scope is left: __aexit__ gets the exception in flight, if
\* any, and the exception goes on to the enclosing code unless suppressed.
Exit ==
    /\ Len(tx.stack) > 0
    /\ LET t == tx.stack[Len(tx.stack)]
           r == aexit(tx.adapter, tx.session, t, tx.raised)
           raised == IF r.suppress THEN "none" ELSE tx.raised
       IN  tx' = [tx EXCEPT !.session = r.session,
                            !.stack = SubSeq(@, 1, Len(@) - 1),
                            !.entry = SubSeq(@, 1, Len(@) - 1),
                            !.ended = @ + (r.t.commits - t.commits)
                                        + (r.t.rollbacks - t.rollbacks),
                            !.raised = raised,
                            !.pc = IF raised = "none" THEN "body"
                                   ELSE "unwinding",
                            !.last = [exited |-> TRUE,
                                      force_rollback |-> t.force_rollback,
                                      exc |-> tx.raised,
                                      commits |-> r.t.commits,
                                      rollbacks |-> r.t.rollbacks]]
    /\ UNCHANGED <<rq, sh, op, cfg, db, th, inst, hist>>

\* The code around a scope that was left by an exception handles it.
Catch ==
    /\ tx.pc = "unwinding"
    /\ tx' = [tx EXCEPT !.pc = "body", !.raised = "none"]
    /\ UNCHANGED <<rq, sh, op, cfg, db, th, inst, hist>>

\* One task using one connection of any adapter; the engine is not running.
InitTx ==
    /\ tx \in {NewConnection(a) : a \in Adapters}
    /\ cfg = [forUpdate |-> tx.adapter # "aiosqlite",
              units |-> [i \in Inst |-> {}], hooks |-> {}, hasData |-> FALSE,
              modes |-> {"cli"}, runs |-> [i \in Inst |-> 0]]
    /\ db = [tbl |-> "absent", legacy |-> -1, rows |-> 0, foreground |-> -1,
             background |-> -1, data_loaded |-> FALSE,
             stmts |-> [v \in Versions |-> 0], seeds |-> 0]
    /\ th = [t \in Thread |-> IdleThread]
    /\ inst = [i \in Inst |-> InitInst]
    /\ hist = [incs |-> [p \in Phases |-> [v \in Versions |-> 0]]]
    /\ sh = NoShared
    /\ op = NoCall
    /\ rq = NoRequests

NextTx ==
    \/ \E f \in BOOLEAN : Enter(f)
    \/ Execute
    \/ \E e \in Excs : Raise(e)
    \/ Exit
    \/ Catch

SpecTx == InitTx /\ [][NextTx]_vars

\* ===================================================================
\* Tasks sharing one connection (TestingBackend.acquire hands the same
\* Connection to every caller)
\* ===================================================================
Tasks == {1, 2}

SharedAdapters == {"aiosqlite", "asyncpg"}

\* A task between two calls.  cur is the transaction object of the call in
\* progress, stack the objects of the scopes the task has entered.
IdleTask ==
    [pc |-> "ready", call |-> "none", stmt |-> "none", name |-> 0,
     cur |-> [id |-> 0, t |-> Transaction(FALSE)], stack |-> <<>>,
     scopes |-> 0, ops |-> 0, errors |-> 0]

\* Connection.__init__: the lock is free.  queue holds the tasks whose
\* statement the driver has not answered yet, open the scopes in the order
\* their start() returned, next the next uuid4.  implicit tells that SQLite
\* opened the transaction for a SAVEPOINT.
NewShared(a) ==
    [adapter |-> a, session |-> IdleSession, implicit |-> FALSE, lock |-> 0,
     task |-> [k \in Tasks |-> IdleTask], queue |-> <<>>, open |-> <<>>,
     next |-> 1]

Failed(s, implicit) == [session |-> s, implicit |-> implicit, ok |-> FALSE]

\* What the database answers to a statement the adapters send.  BEGIN
\* inside a transaction, COMMIT and ROLLBACK outside one and an unknown
\* savepoint are errors; in SQLite a SAVEPOINT outside a transaction opens
\* one, which the RELEASE of that savepoint commits.
Answer(s, implicit, stmt, name) ==
    CASE stmt = "BEGIN" ->
             IF s.in_transaction THEN Failed(s, implicit)
             ELSE [session |-> Begin(s), implicit |-> FALSE, ok |-> TRUE]
      [] stmt = "COMMIT" ->
             IF ~s.in_transaction THEN Failed(s, implicit)
             ELSE [session |-> CommitSession(s), implicit |-> FALSE,
                   ok |-> TRUE]
      [] stmt = "ROLLBACK" ->
             IF ~s.in_transaction THEN Failed(s, implicit)
             ELSE [session |-> RollbackSession(s), implicit |-> FALSE,
                   ok |-> TRUE]
      [] stmt = "SAVEPOINT" ->
             [session |-> Savepoint(Begin(s), name),
              implicit |-> IF s.in_transaction THEN implicit ELSE TRUE,
              ok |-> TRUE]
      [] stmt = "RELEASE SAVEPOINT" ->
             IF Position(s, name) = 0 THEN Failed(s, implicit)
             ELSE IF implicit /\ Position(s, name) = 1
                  THEN [session |-> CommitSession(s), implicit |-> FALSE,
                        ok |-> TRUE]
                  ELSE [session |-> ReleaseSavepoint(s, name),
                        implicit |-> implicit, ok |-> TRUE]
      [] stmt = "ROLLBACK TO SAVEPOINT" ->
             IF Position(s, name) = 0 THEN Failed(s, implicit)
             ELSE [session |-> RollbackToSavepoint(s, name),
                   implicit |-> implicit, ok |-> TRUE]
      [] OTHER ->
             [session |-> Statement(s), implicit |-> implicit, ok |-> TRUE]

\* The statement is handed to the driver without the lock.
Sent(k, r) ==
    [sh EXCEPT !.task[k] = [r EXCEPT !.pc = "sent"],
               !.queue = Append(@, k)]

\* asyncpg's transaction object begins a transaction when the connection has
\* none and sets a savepoint otherwise; it decides when start() runs, that
\* is with the lock held.
Resolved(stmt) ==
    IF stmt = "start"
    THEN IF sh.session.in_transaction THEN "SAVEPOINT" ELSE "BEGIN"
    ELSE stmt

\* `async with self._lock:` the lock is taken at once when it is free, and
\* the statement is handed to the driver; otherwise the task waits.
WithLock(k, r) ==
    IF sh.lock = 0
    THEN [sh EXCEPT !.task[k] = [r EXCEPT !.pc = "sent",
                                          !.stmt = Resolved(r.stmt)],
                    !.queue = Append(@, k),
                    !.lock = k]
    ELSE [sh EXCEPT !.task[k] = [r EXCEPT !.pc = "lock"]]

\* A task enters `async with connection.transaction(force_rollback=f):`.
\* The aiosqlite adapter reads in_transaction before it takes the lock and
\* sends SAVEPOINT without the lock.
TaskStart(k, f) ==
    /\ sh.task[k].pc = "ready"
    /\ sh.task[k].scopes < MaxTaskScopes
    /\ LET n == sh.next
           r == [sh.task[k] EXCEPT !.call = "start", !.scopes = @ + 1,
                                   !.cur = [id |-> n, t |-> Transaction(f)],
                                   !.name = n]
           q == IF sh.adapter = "aiosqlite"
                THEN IF sh.session.in_transaction
                     THEN Sent(k, [r EXCEPT !.stmt = "SAVEPOINT"])
                     ELSE WithLock(k, [r EXCEPT !.stmt = "BEGIN"])
                ELSE WithLock(k, [r EXCEPT !.stmt = "start"])
       IN  sh' = [q EXCEPT !.next = n + 1]
    /\ UNCHANGED <<rq, op, tx, cfg, db, th, inst, hist>>

\* A task leaves its innermost scope, with the exception e in flight.  The
\* aiosqlite adapter pops the savepoint's name and sends RELEASE SAVEPOINT or
\* ROLLBACK TO SAVEPOINT without the lock.
TaskExit(k, e) ==
    /\ sh.task[k].pc = "ready"
    /\ Len(sh.task[k].stack) > 0
    /\ LET cur == sh.task[k].stack[Len(sh.task[k].stack)]
           t == cur.t
           back == RollsBack(t, e)
           r == [sh.task[k] EXCEPT
                    !.call = IF back THEN "rollback" ELSE "commit",
                    !.stack = SubSeq(@, 1, Len(@) - 1),
                    !.cur = cur]
           nested == IF back THEN "ROLLBACK TO SAVEPOINT"
                     ELSE "RELEASE SAVEPOINT"
           top == IF back THEN "ROLLBACK" ELSE "COMMIT"
       IN  sh' = IF sh.adapter = "aiosqlite"
                 THEN IF Len(t.savepoints) > 0
                      THEN Sent(k, [r EXCEPT
                               !.stmt = nested,
                               !.name = t.savepoints[Len(t.savepoints)],
                               !.cur.t.savepoints = SubSeq(@, 1, Len(@) - 1)])
                      ELSE WithLock(k, [r EXCEPT !.stmt = top])
                 ELSE WithLock(k, [r EXCEPT
                          !.stmt = IF t.transaction = "nested" THEN nested
                                   ELSE top,
                          !.name = t.name])
    /\ UNCHANGED <<rq, op, tx, cfg, db, th, inst, hist>>

\* A task calls Connection.execute.
TaskExecute(k) ==
    /\ sh.task[k].pc = "ready"
    /\ sh.task[k].ops < MaxTaskOps
    /\ sh' = WithLock(k, [sh.task[k] EXCEPT !.call = "execute",
                                            !.stmt = "EXECUTE",
                                            !.ops = @ + 1])
    /\ UNCHANGED <<rq, op, tx, cfg, db, th, inst, hist>>

\* A task that waited for the lock gets it.
LockAcquired(k) ==
    /\ sh.task[k].pc = "lock"
    /\ sh.lock = 0
    /\ sh' = WithLock(k, sh.task[k])
    /\ UNCHANGED <<rq, op, tx, cfg, db, th, inst, hist>>

\* The driver answers the oldest statement: the call returns or raises, and
\* the lock is released if the task holds it.
Returned(k) ==
    /\ sh.task[k].pc = "sent"
    /\ Head(sh.queue) = k
    /\ LET r == sh.task[k]
           a == Answer(sh.session, sh.implicit, r.stmt, r.name)
           t == IF sh.adapter = "aiosqlite"
                THEN IF r.stmt = "SAVEPOINT"
                     THEN [r.cur.t EXCEPT !.savepoints = Append(@, r.name)]
                     ELSE r.cur.t
                ELSE [r.cur.t EXCEPT
                         !.transaction = IF r.stmt = "SAVEPOINT"
                                         THEN "nested" ELSE "top",
                         !.name = r.name]
           started == r.call = "start" /\ a.ok
       IN  sh' = [sh EXCEPT
                     !.session = a.session,
                     !.implicit = a.implicit,
                     !.lock = IF @ = k THEN 0 ELSE @,
                     !.queue = Tail(@),
                     !.open = IF started THEN Append(@, r.cur.id)
                              ELSE IF r.call \in {"commit", "rollback"}
                                   THEN SelectSeq(@, LAMBDA x : x # r.cur.id)
                                   ELSE @,
                     !.task[k] = [r EXCEPT
                         !.pc = "ready", !.call = "none", !.stmt = "none",
                         !.stack = IF started
                                   THEN Append(@, [id |-> r.cur.id, t |-> t])
                                   ELSE @,
                         !.errors = IF a.ok THEN @ ELSE @ + 1]]
    /\ UNCHANGED <<rq, op, tx, cfg, db, th, inst, hist>>

\* The engine is not running.
EngineOff ==
    /\ cfg = [forUpdate |-> FALSE,
              units |-> [i \in Inst |-> {}], hooks |-> {}, hasData |-> FALSE,
              modes |-> {"cli"}, runs |-> [i \in Inst |-> 0]]
    /\ db = [tbl |-> "absent", legacy |-> -1, rows |-> 0, foreground |-> -1,
             background |-> -1, data_loaded |-> FALSE,
             stmts |-> [v \in Versions |-> 0], seeds |-> 0]
    /\ th = [t \in Thread |-> IdleThread]
    /\ inst = [i \in Inst |-> InitInst]
    /\ hist = [incs |-> [p \in Phases |-> [v \in Versions |-> 0]]]

InitShared ==
    /\ sh \in {NewShared(a) : a \in SharedAdapters}
    /\ tx = NewConnection(sh.adapter)
    /\ op = NoCall
    /\ rq = NoRequests
    /\ EngineOff

NextShared ==
    \/ \E k \in Tasks, f \in BOOLEAN : TaskStart(k, f)
    \/ \E k \in Tasks, e \in {"none", "error"} : TaskExit(k, e)
    \/ \E k \in Tasks : TaskExecute(k)
    \/ \E k \in Tasks : LockAcquired(k)
    \/ \E k \in Tasks : Returned(k)

SpecShared == InitShared /\ [][NextShared]_vars

\* ===================================================================
\* The lock of a connection (backends/aiosqlite.py and backends/asyncpg.py,
\* `async with self._lock:` in the query methods and in iterate)
\* ===================================================================
\* Nobody holds the lock.
NoHolder == [task |-> 0, by |-> "none"]

\* A task between two calls.  gen is the state of the generator the task got
\* from iterate(): "new" before its first row is asked for, "yielded" while
\* it is suspended at its yield with the lock held, "abandoned" when the loop
\* was left without closing it, "closed" when it has finished.
IdleCaller ==
    [pc |-> "ready", call |-> "none", gen |-> "none", rows |-> 0, ops |-> 0,
     last |-> "none"]

\* Connection.__init__: self._lock = asyncio.Lock().
NewLocked(a) ==
    [adapter |-> a, lock |-> NoHolder, waiters |-> <<>>,
     task |-> [k \in Tasks |-> IdleCaller]]

\* The lock is held for a query method's call or for the generator.
Holder(k, call) ==
    [task |-> k, by |-> IF call = "next" THEN "iterate" ELSE "call"]

\* `async with self._lock:` is entered: the lock is taken at once when it is
\* free and nobody waits for it, otherwise the task waits in line.
LockEnter(s, k) ==
    IF s.lock = NoHolder /\ s.waiters = <<>>
    THEN [s EXCEPT !.lock = Holder(k, s.task[k].call), !.task[k].pc = "sent"]
    ELSE [s EXCEPT !.waiters = Append(@, k), !.task[k].pc = "lock"]

LockExit_keeps(s, k, by) == s

\* `async with self._lock:` is left, by return or by an exception.
LockExit(s, k, by) ==
    IF s.lock = [task |-> k, by |-> by]
    THEN [s EXCEPT !.lock = NoHolder]
    ELSE s

\* _compile raises before the lock is asked for; only the asyncpg adapter
\* compiles.
Outcomes(a) == IF a = "asyncpg" THEN {"none", "compile"} ELSE {"none"}

\* A task calls execute or a fetch method, in the body of its loop or not.
LockedCall(k, e) ==
    /\ sh.task[k].pc = "ready"
    /\ sh.task[k].ops < MaxTaskOps
    /\ e \in Outcomes(sh.adapter)
    /\ sh' = IF e = "compile"
             THEN [sh EXCEPT !.task[k].ops = @ + 1,
                             !.task[k].last = "raised"]
             ELSE LockEnter([sh EXCEPT !.task[k].ops = @ + 1,
                                       !.task[k].call = "execute"], k)
    /\ UNCHANGED <<rq, op, tx, cfg, db, th, inst, hist>>

\* A task calls iterate(): nothing of the generator runs yet.
LockedIterate(k) ==
    /\ sh.task[k].pc = "ready"
    /\ sh.task[k].gen = "none"
    /\ sh' = [sh EXCEPT !.task[k].gen = "new"]
    /\ UNCHANGED <<rq, op, tx, cfg, db, th, inst, hist>>

\* `async for` asks the generator for a row.  The first time the generator
\* compiles and enters the lock; later it resumes after its yield, inside
\* the lock.
LockedNext(k, e) ==
    /\ sh.task[k].pc = "ready"
    /\ sh.task[k].gen \in {"new", "yielded"}
    /\ e \in Outcomes(sh.adapter)
    /\ e = "compile" => sh.task[k].gen = "new"
    /\ sh' = IF e = "compile"
             THEN [sh EXCEPT !.task[k].gen = "closed",
                             !.task[k].last = "raised"]
             ELSE IF sh.task[k].gen = "new"
             THEN LockEnter([sh EXCEPT !.task[k].call = "next"], k)
             ELSE [sh EXCEPT !.task[k].call = "next", !.task[k].pc = "sent"]
    /\ UNCHANGED <<rq, op, tx, cfg, db, th, inst, hist>>

\* The lock is free and the task is the first in line.
LockGranted(k) ==
    /\ sh.task[k].pc = "lock"
    /\ sh.lock = NoHolder
    /\ Head(sh.waiters) = k
    /\ sh' = [sh EXCEPT !.lock = Holder(k, sh.task[k].call),
                        !.waiters = Tail(@),
                        !.task[k].pc = "sent"]
    /\ UNCHANGED <<rq, op, tx, cfg, db, th, inst, hist>>

\* What the driver can answer to the call in progress.
Answers(r, a) ==
    IF r.call = "next"
    THEN {"end", "driver"} \cup (IF r.rows < MaxRows THEN {"row"} ELSE {})
    ELSE {"none", "driver"} \cup (IF a = "aiosqlite" THEN {"multiple"} ELSE {})

\* The driver answers.  A query method leaves the lock and returns or
\* raises (MultipleRowsError is raised after the lock was left); the
\* generator yields the row and keeps the lock, or ends and leaves it.
LockedAnswer(k, e) ==
    /\ sh.task[k].pc = "sent"
    /\ e \in Answers(sh.task[k], sh.adapter)
    /\ LET r == sh.task[k]
           idle == [r EXCEPT !.pc = "ready", !.call = "none",
                             !.last = IF e \in {"driver", "multiple"}
                                      THEN "raised" ELSE "returned"]
       IN  sh' = IF r.call = "next"
                 THEN IF e = "row"
                      THEN [sh EXCEPT !.task[k] =
                               [idle EXCEPT !.gen = "yielded",
                                            !.rows = @ + 1]]
                      ELSE LockExit([sh EXCEPT !.task[k] =
                                        [idle EXCEPT !.gen = "closed"]],
                                    k, "iterate")
                 ELSE LockExit([sh EXCEPT !.task[k] = idle], k, "call")
    /\ UNCHANGED <<rq, op, tx, cfg, db, th, inst, hist>>

\* The task is cancelled at the await of the call in progress: a waiter
\* leaves the line, a holder leaves the lock.  A cancelled __anext__ ends
\* the generator; a call cancelled in the body of a loop leaves the loop
\* without closing the generator.
LockedCancel(k) ==
    /\ sh.task[k].pc \in {"lock", "sent"}
    /\ LET r == sh.task[k]
           idle == [r EXCEPT !.pc = "ready", !.call = "none",
                             !.last = "cancelled",
                             !.gen = IF r.call = "next" THEN "closed"
                                     ELSE IF @ = "yielded" THEN "abandoned"
                                     ELSE @]
           s == [sh EXCEPT !.task[k] = idle,
                           !.waiters = SelectSeq(@, LAMBDA x : x # k)]
       IN  sh' = LockExit(s, k, Holder(k, r.call).by)
    /\ UNCHANGED <<rq, op, tx, cfg, db, th, inst, hist>>

\* The loop is left early and the generator is closed with aclose().
LockedClose(k) ==
    /\ sh.task[k].pc = "ready"
    /\ sh.task[k].gen = "yielded"
    /\ sh' = LockExit([sh EXCEPT !.task[k].gen = "closed"], k, "iterate")
    /\ UNCHANGED <<rq, op, tx, cfg, db, th, inst, hist>>

\* The loop is left early (break, return, an exception of the body) and the
\* generator is not closed: it stays suspended inside the lock until the
\* event loop finalizes it.
LockedBreak(k) ==
    /\ sh.task[k].pc = "ready"
    /\ sh.task[k].gen = "yielded"
    /\ sh' = [sh EXCEPT !.task[k].gen = "abandoned"]
    /\ UNCHANGED <<rq, op, tx, cfg, db, th, inst, hist>>

\* The event loop closes the generator that was left behind.
Finalized(k) ==
    /\ sh.task[k].gen = "abandoned"
    /\ sh' = LockExit([sh EXCEPT !.task[k].gen = "closed"], k, "iterate")
    /\ UNCHANGED <<rq, op, tx, cfg, db, th, inst, hist>>

InitLock ==
    /\ sh \in {NewLocked(a) : a \in SharedAdapters}
    /\ tx = NewConnection(sh.adapter)
    /\ op = NoCall
    /\ rq = NoRequests
    /\ EngineOff

NextLock ==
    \/ \E k \in Tasks, e \in {"none", "compile"} : LockedCall(k, e)
    \/ \E k \in Tasks : LockedIterate(k)
    \/ \E k \in Tasks, e \in {"none", "compile"} : LockedNext(k, e)
    \/ \E k \in Tasks : LockGranted(k)
    \/ \E k \in Tasks, e \in {"none", "driver", "multiple", "row", "end"} :
           LockedAnswer(k, e)
    \/ \E k \in Tasks : LockedCancel(k)
    \/ \E k \in Tasks : LockedClose(k)
    \/ \E k \in Tasks : LockedBreak(k)
    \/ \E k \in Tasks : Finalized(k)

SpecLock == InitLock /\ [][NextLock]_vars

\* The event loop runs every task that can go on: a granted lock is taken,
\* the driver answers, a loop goes on to its next row and a generator left
\* behind is finalized.  Nothing cancels a task unless the caller does.
FairLock ==
    \A k \in Tasks :
        /\ WF_vars(LockGranted(k))
        /\ WF_vars(\E e \in {"none", "driver", "multiple", "row", "end"} :
                       LockedAnswer(k, e))
        /\ WF_vars(LockedNext(k, "none"))
        /\ WF_vars(Finalized(k))

SpecLockFair == InitLock /\ [][NextLock]_vars /\ FairLock

\* ===================================================================
\* The query methods of a connection (backends/*.py and connection.py,
\* class Connection)
\* ===================================================================
\* "connection" is the Connection class of connection.py.
Classes == {"aiosqlite", "asyncpg", "psycopg", "connection"}

Keys == {"a", "b"}

Vals == {2, 3}

\* The references of a template: by name (:a) or by position ($1).
Named(tok) == tok \in {":a", ":b"}

Key(tok) == IF tok = ":a" THEN "a" ELSE "b"

Dollar(k) == IF k = 1 THEN "$1" ELSE IF k = 2 THEN "$2" ELSE "$3"

RefLists ==
    {<<>>, <<":a">>, <<":b">>, <<":a", ":b">>, <<":b", ":a">>,
     <<"$1">>, <<"$1", "$2">>}

\* A template is a statement on the table with its references: INSERT adds
\* a row of the bound arguments, SELECT matches the rows equal to them.
Templates == [verb : {"SELECT", "INSERT"}, refs : RefLists]

SelectAll == [verb |-> "SELECT", refs |-> <<>>]

\* The values of a call: absent, a sequence, or a mapping.
None == [type |-> "none", list |-> <<>>, dict |-> <<>>]

ListValues ==
    {[type |-> "list", list |-> l, dict |-> <<>>] :
        l \in UNION {[1 .. n -> Vals] : n \in 0 .. MaxList}}

DictValues ==
    {[type |-> "dict", list |-> <<>>, dict |-> d] :
        d \in UNION {[S -> Vals] : S \in SUBSET Keys}}

Values == {None} \cup ListValues \cup DictValues

Rows == {<<v>> : v \in Vals}

Tables == UNION {[1 .. n -> Rows] : n \in 0 .. MaxRows}

NamedRefs(query) == {k \in 1 .. Len(query.refs) : Named(query.refs[k])}

Missing(query, dict) ==
    {k \in NamedRefs(query) : Key(query.refs[k]) \notin DOMAIN dict}

\* buildpg's render(query, **values): every named reference becomes a
\* positional one and its value an argument; a name without a value is a
\* BuildError that names it.
render(query, dict) ==
    IF Missing(query, dict) # {}
    THEN [raised |-> "BuildError",
          message |-> Key(query.refs[CHOOSE k \in Missing(query, dict) :
                              \A j \in Missing(query, dict) : k <= j]),
          text |-> query, args |-> <<>>]
    ELSE IF NamedRefs(query) = {}
    THEN [raised |-> "none", message |-> "none", text |-> query,
          args |-> <<>>]
    ELSE [raised |-> "none", message |-> "none",
          text |-> [query EXCEPT
                       !.refs = [k \in 1 .. Len(query.refs) |-> Dollar(k)]],
          args |-> [k \in 1 .. Len(query.refs) |->
                       dict[Key(query.refs[k])]]]

\* A faulty variant: the message of the error is lost.
UndefinedParameterError_no_message(error) ==
    [error EXCEPT !.raised = "UndefinedParameterError", !.message = "none"]

\* raise UndefinedParameterError(str(error))
UndefinedParameterError(error) ==
    [error EXCEPT !.raised = "UndefinedParameterError"]

\* `return query, values`
AsIs(query, args) ==
    [raised |-> "none", message |-> "none", text |-> query, args |-> args]

Rendered(query, dict) ==
    IF render(query, dict).raised = "BuildError"
    THEN UndefinedParameterError(render(query, dict))
    ELSE render(query, dict)

\* Connection._compile of backends/asyncpg.py
compile_asyncpg(query, values) ==
    IF values.type = "dict" THEN Rendered(query, values.dict)
    ELSE IF values.type # "none" THEN AsIs(query, values.list)
    ELSE AsIs(query, <<>>)

\* Connection._compile of backends/psycopg.py
compile_psycopg(query, values) ==
    IF values.type = "list" THEN AsIs(query, values.list)
    ELSE Rendered(query, values.dict)

\* Connection._compile of connection.py
compile_connection(query, values) ==
    IF values.type = "list" THEN AsIs(query, <<>>)
    ELSE Rendered(query, values.dict)

\* The aiosqlite adapter has no _compile: the query and the values go to the
\* driver as they are.
compile(class, query, values) ==
    CASE class = "asyncpg" -> compile_asyncpg(query, values)
      [] class = "psycopg" -> compile_psycopg(query, values)
      [] class = "connection" -> compile_connection(query, values)
      [] OTHER -> AsIs(query, values.list)

\* The driver binds the arguments to the references of the text.  sqlite3
\* looks a named reference up in a mapping and raises ProgrammingError,
\* naming the reference, when the mapping lacks it; the number of positional
\* arguments must be the number of references.
bind(class, c, values) ==
    IF class = "aiosqlite" /\ values.type = "dict"
    THEN IF render(c.text, values.dict).raised # "none"
         THEN [raised |-> "ProgrammingError",
               message |-> render(c.text, values.dict).message, args |-> <<>>]
         ELSE IF NamedRefs(c.text) = {} /\ Len(c.text.refs) > 0
         THEN [raised |-> "ProgrammingError", message |-> "none",
               args |-> <<>>]
         ELSE [raised |-> "none", message |-> "none",
               args |-> render(c.text, values.dict).args]
    ELSE IF Len(c.args) = Len(c.text.refs)
         THEN [raised |-> "none", message |-> "none", args |-> c.args]
         ELSE [raised |-> IF class \in {"aiosqlite", "psycopg"}
                          THEN "ProgrammingError" ELSE "InterfaceError",
               message |-> "none", args |-> <<>>]

\* `except ProgrammingError as error: raise UndefinedParameterError(...)` of
\* the aiosqlite and psycopg adapters; other errors of the driver go on.
Caught(class, b) ==
    IF b.raised = "ProgrammingError" THEN UndefinedParameterError(b) ELSE b

\* The rows of the table a SELECT with these arguments matches.
Matching(table, args) ==
    IF args = <<>> THEN table
    ELSE SelectSeq(table, LAMBDA row : row = args)

\* One statement: compiled, bound and run.  rows are the rows it matched,
\* ran tells that the database ran it.
Statement1(class, query, values, table) ==
    LET c == compile(class, query, values)
        b == Caught(class, bind(class, c, values))
        failed == IF c.raised # "none" THEN c ELSE b
    IN  IF c.raised # "none" \/ b.raised # "none"
        THEN [raised |-> failed.raised, message |-> failed.message,
              text |-> c.text, args |-> c.args, ran |-> FALSE,
              rows |-> <<>>, result |-> <<>>, table |-> table]
        ELSE [raised |-> "none", message |-> "none",
              text |-> c.text, args |-> c.args, ran |-> TRUE,
              rows |-> IF query.verb = "SELECT"
                       THEN Matching(table, b.args) ELSE <<>>,
              result |-> <<>>,
              table |-> IF query.verb = "INSERT"
                        THEN Append(table, b.args) ELSE table]

\* cursor.fetchone() / fetchrow: the first row or None (the empty result).
fetchone(rows) == IF rows = <<>> THEN <<>> ELSE <<rows[1]>>

\* cursor.fetchmany(n)
fetchmany(rows, n) == SubSeq(rows, 1, IF Len(rows) < n THEN Len(rows) ELSE n)

\* Connection.execute
execute(class, query, values, table) ==
    Statement1(class, query, values, table)

\* Connection.fetch_all
fetch_all(class, query, values, table) ==
    LET r == Statement1(class, query, values, table)
    IN  [r EXCEPT !.result = r.rows]

\* A faulty variant: the last row is returned.
fetch_first_last(class, query, values, table) ==
    LET r == Statement1(class, query, values, table)
    IN  [r EXCEPT !.result = IF r.rows = <<>> THEN <<>>
                             ELSE <<r.rows[Len(r.rows)]>>]

\* Connection.fetch_first of the aiosqlite and psycopg adapters
fetch_first(class, query, values, table) ==
    LET r == Statement1(class, query, values, table)
    IN  [r EXCEPT !.result = fetchone(r.rows)]

\* Connection.fetch_one: fetchrow in backends/asyncpg.py and connection.py,
\* fetch_first in the other adapters.
fetch_one(class, query, values, table) ==
    IF class \in {"aiosqlite", "psycopg"}
    THEN fetch_first(class, query, values, table)
    ELSE LET r == Statement1(class, query, values, table)
         IN  [r EXCEPT !.result = fetchone(r.rows)]

\* A faulty variant: more than one row is not an error.
fetch_sole_first(class, query, values, table) ==
    LET r == Statement1(class, query, values, table)
    IN  [r EXCEPT !.result = fetchone(r.rows)]

\* Connection.fetch_sole of the aiosqlite and psycopg adapters
fetch_sole(class, query, values, table) ==
    LET r == Statement1(class, query, values, table)
        rows == fetchmany(r.rows, 2)
    IN  IF ~r.ran THEN r
        ELSE IF Len(rows) > 1
        THEN [r EXCEPT !.raised = "MultipleRowsError"]
        ELSE IF Len(rows) = 1 THEN [r EXCEPT !.result = <<rows[1]>>]
        ELSE [r EXCEPT !.result = <<>>]

\* The outcome of executemany for the compiled text and one argument list
\* per value-set.
Many(class, query, sets, text, bs, table) ==
    LET bad == {i \in 1 .. Len(sets) : bs[i].raised # "none"}
        first == CHOOSE i \in bad : \A j \in bad : i <= j
        done == IF bad = {} THEN Len(sets)
                ELSE IF class = "aiosqlite" THEN first - 1 ELSE 0
        added == [i \in 1 .. done |-> bs[i].args]
    IN  [raised |-> IF bad = {} THEN "none" ELSE bs[first].raised,
         message |-> IF bad = {} THEN "none" ELSE bs[first].message,
         text |-> text, ran |-> bad = {}, rows |-> <<>>, result |-> <<>>,
         table |-> IF query.verb = "INSERT" THEN table \o added ELSE table]

\* A faulty variant: every value-set is given the arguments of the first.
execute_many_first(class, query, sets, table) ==
    LET cs == [i \in 1 .. Len(sets) |-> compile(class, query, sets[i])]
        bs == [i \in 1 .. Len(sets) |->
                  Caught(class, bind(class, cs[1], sets[1]))]
    IN  IF sets = <<>>
        THEN [raised |-> "none", message |-> "none", text |-> query,
              args |-> <<>>, ran |-> FALSE, rows |-> <<>>, result |-> <<>>,
              table |-> table]
        ELSE [args |-> [i \in 1 .. Len(sets) |-> cs[1].args]]
             @@ Many(class, query, sets, cs[1].text, bs, table)

\* Connection.execute_many: nothing for no value-sets; otherwise every
\* value-set is compiled, the text is that of the first and the driver's
\* executemany gets one argument list per value-set.
execute_many(class, query, sets, table) ==
    LET cs == [i \in 1 .. Len(sets) |-> compile(class, query, sets[i])]
        bad == {i \in 1 .. Len(sets) : cs[i].raised # "none"}
        first == CHOOSE i \in bad : \A j \in bad : i <= j
        bs == [i \in 1 .. Len(sets) |->
                  Caught(class, bind(class, [cs[i] EXCEPT !.text = cs[1].text],
                                     sets[i]))]
    IN  IF sets = <<>>
        THEN [raised |-> "none", message |-> "none", text |-> query,
              args |-> <<>>, ran |-> FALSE, rows |-> <<>>, result |-> <<>>,
              table |-> table]
        ELSE IF bad # {}
        THEN [raised |-> cs[first].raised, message |-> cs[first].message,
              text |-> cs[1].text, args |-> <<>>, ran |-> FALSE,
              rows |-> <<>>, result |-> <<>>, table |-> table]
        ELSE [args |-> [i \in 1 .. Len(sets) |-> cs[i].args]]
             @@ Many(class, query, sets, cs[1].text, bs, table)

\* A connection of one class and the table before any call.
NewCall(class, table) ==
    [class |-> class, method |-> "none", pc |-> "call", query |-> SelectAll,
     values |-> None, sets |-> <<>>, before |-> table, out |-> <<>>]

\* A call of a method that takes one set of values.
Called(method, query, values, out) ==
    op' = [op EXCEPT !.method = method, !.pc = "done", !.query = query,
                     !.values = values, !.out = out]

CallExecute(query, values) ==
    /\ op.pc = "call"
    /\ Called("execute", query, values,
              execute(op.class, query, values, op.before))
    /\ UNCHANGED <<rq, sh, tx, cfg, db, th, inst, hist>>

CallExecuteMany(query, sets) ==
    /\ op.pc = "call"
    /\ op' = [op EXCEPT !.method = "execute_many", !.pc = "done",
                        !.query = query, !.sets = sets,
                        !.out = execute_many(op.class, query, sets,
                                             op.before)]
    /\ UNCHANGED <<rq, sh, tx, cfg, db, th, inst, hist>>

CallFetchAll(query, values) ==
    /\ op.pc = "call"
    /\ Called("fetch_all", query, values,
              fetch_all(op.class, query, values, op.before))
    /\ UNCHANGED <<rq, sh, tx, cfg, db, th, inst, hist>>

CallFetchFirst(query, values) ==
    /\ op.pc = "call"
    /\ op.class \in {"aiosqlite", "psycopg"}
    /\ Called("fetch_first", query, values,
              fetch_first(op.class, query, values, op.before))
    /\ UNCHANGED <<rq, sh, tx, cfg, db, th, inst, hist>>

CallFetchOne(query, values) ==
    /\ op.pc = "call"
    /\ Called("fetch_one", query, values,
              fetch_one(op.class, query, values, op.before))
    /\ UNCHANGED <<rq, sh, tx, cfg, db, th, inst, hist>>

CallFetchSole(query, values) ==
    /\ op.pc = "call"
    /\ op.class \in {"aiosqlite", "psycopg"}
    /\ Called("fetch_sole", query, values,
              fetch_sole(op.class, query, values, op.before))
    /\ UNCHANGED <<rq, sh, tx, cfg, db, th, inst, hist>>

\* The value-sets of an execute_many call: mappings with the same names.
ValueSets ==
    UNION {[1 .. n -> {v \in DictValues : DOMAIN v.dict = S}] :
              n \in 0 .. MaxSets, S \in SUBSET Keys}

InitCall ==
    /\ op \in {NewCall(class, table) : class \in Classes, table \in Tables}
    /\ sh = NoShared
    /\ rq = NoRequests
    /\ tx = NewConnection("aiosqlite")
    /\ EngineOff

NextCall ==
    \/ \E query \in Templates, values \in Values : CallExecute(query, values)
    \/ \E query \in Templates, values \in Values : CallFetchAll(query, values)
    \/ \E query \in Templates, values \in Values :
           CallFetchFirst(query, values)
    \/ \E query \in Templates, values \in Values : CallFetchOne(query, values)
    \/ \E query \in Templates, values \in Values :
           CallFetchSole(query, values)

SpecCall == InitCall /\ [][NextCall]_vars

\* One call of execute_many.
NextMany ==
    \E query \in Templates, sets \in ValueSets : CallExecuteMany(query, sets)

SpecMany == InitCall /\ [][NextMany]_vars

\* execute_many with value-sets of any kind, sequences and mappings mixed, on
\* the adapters that compile the query (asyncpg, psycopg).
MixedSets == UNION {[1 .. n -> Values] : n \in 0 .. MaxSets}

InitMixed ==
    /\ op \in {NewCall(class, <<>>) : class \in {"asyncpg", "psycopg"}}
    /\ sh = NoShared
    /\ rq = NoRequests
    /\ tx = NewConnection("aiosqlite")
    /\ EngineOff

NextMixed ==
    /\ op.pc = "call"
    /\ \E query \in Templates, sets \in MixedSets :
           CallExecuteMany(query, sets)

SpecMixed == InitMixed /\ [][NextMixed]_vars

\* What the driver's cursor gets from Connection.iterate.  The asyncpg
\* adapter and connection.py call cursor(compiled_query, *args), as their
\* other methods do, and the aiosqlite adapter execute(query, values).  The
\* psycopg adapter calls cursor.stream(compiled_query, *args), while its
\* other methods pass args as one parameter: without arguments stream gets
\* no parameters; one argument becomes the parameters themselves, which a
\* plain value cannot be, and further arguments are more positional
\* parameters than stream takes, a TypeError in both cases.
stream(class, c, values) ==
    IF class = "psycopg" /\ Len(c.args) > 0
    THEN [raised |-> "TypeError", message |-> "none", args |-> <<>>]
    ELSE Caught(class, bind(class, c, values))

\* Connection.iterate up to the first row: the statement is compiled and
\* the cursor opened; rows are the rows the cursor will give.
iterate(class, query, values, table) ==
    LET c == compile(class, query, values)
        b == stream(class, c, values)
        failed == IF c.raised # "none" THEN c ELSE b
    IN  IF c.raised # "none" \/ b.raised # "none"
        THEN [raised |-> failed.raised, message |-> failed.message,
              text |-> c.text, args |-> c.args, ran |-> FALSE,
              rows |-> <<>>, result |-> <<>>, table |-> table]
        ELSE [raised |-> "none", message |-> "none",
              text |-> c.text, args |-> c.args, ran |-> TRUE,
              rows |-> IF query.verb = "SELECT"
                       THEN Matching(table, b.args) ELSE <<>>,
              result |-> <<>>,
              table |-> IF query.verb = "INSERT"
                        THEN Append(table, b.args) ELSE table]

\* `async for row in connection.iterate(query, values)` starts.
CallIterate(query, values) ==
    /\ op.pc = "call"
    /\ LET out == iterate(op.class, query, values, op.before)
       IN  op' = [op EXCEPT !.method = "iterate",
                            !.pc = IF out.ran THEN "iterating" ELSE "done",
                            !.query = query, !.values = values,
                            !.out = out]
    /\ UNCHANGED <<rq, sh, tx, cfg, db, th, inst, hist>>

\* The loop asks for the next row: the cursor yields it, or is exhausted
\* and the generator ends.  result holds the rows yielded so far.
IterateNext ==
    /\ op.pc = "iterating"
    /\ op' = IF Len(op.out.result) < Len(op.out.rows)
             THEN [op EXCEPT !.out.result =
                       Append(@, op.out.rows[Len(op.out.result) + 1])]
             ELSE [op EXCEPT !.pc = "done"]
    /\ UNCHANGED <<rq, sh, tx, cfg, db, th, inst, hist>>

NextIterate ==
    \/ \E query \in Templates, values \in Values : CallIterate(query, values)
    \/ IterateNext

SpecIterate == InitCall /\ [][NextIterate]_vars

\* ------------------------------------------------ errors of the driver
\* What can go wrong in the driver besides the binding of the arguments.
Faults == {"none", "syntax", "missing_table", "closed"}

\* The exception the driver of an adapter raises for a fault: its class and
\* the base class an except clause sees.  sqlite3 raises OperationalError for
\* a syntax error and a missing table and ProgrammingError on a closed
\* database; psycopg's SyntaxError and UndefinedTable are ProgrammingErrors,
\* a closed connection is an OperationalError; asyncpg has classes of its
\* own.
driver_error(class, fault) ==
    CASE class = "aiosqlite" ->
           IF fault = "closed"
           THEN [raised |-> "ProgrammingError", base |-> "ProgrammingError"]
           ELSE [raised |-> "OperationalError", base |-> "OperationalError"]
      [] class = "psycopg" ->
           IF fault = "closed"
           THEN [raised |-> "OperationalError", base |-> "OperationalError"]
           ELSE IF fault = "syntax"
           THEN [raised |-> "SyntaxError", base |-> "ProgrammingError"]
           ELSE [raised |-> "UndefinedTable", base |-> "ProgrammingError"]
      [] OTHER ->
           IF fault = "closed"
           THEN [raised |-> "InterfaceError", base |-> "InterfaceError"]
           ELSE IF fault = "syntax"
           THEN [raised |-> "PostgresSyntaxError", base |-> "PostgresError"]
           ELSE [raised |-> "UndefinedTableError", base |-> "PostgresError"]

\* Connection.execute on a session with a fault: the text is compiled, the
\* driver raises before it binds anything, and the except clause of the
\* adapter sees the error.
execute_faulty(class, query, values, table, fault) ==
    LET c == compile(class, query, values)
        e == driver_error(class, fault)
        b == Caught(class, [raised |-> e.base, message |-> "none",
                            args |-> <<>>])
    IN  IF c.raised # "none" \/ fault = "none"
        THEN [fault |-> fault, kind |-> "none"]
             @@ Statement1(class, query, values, table)
        ELSE [fault |-> fault, kind |-> e.raised,
              raised |-> IF b.raised = "UndefinedParameterError"
                         THEN b.raised ELSE e.raised,
              message |-> "none", text |-> c.text, args |-> c.args,
              ran |-> FALSE, rows |-> <<>>, result |-> <<>>, table |-> table]

CallExecuteFaulty(query, values, fault) ==
    /\ op.pc = "call"
    /\ Called("execute", query, values,
              execute_faulty(op.class, query, values, op.before, fault))
    /\ UNCHANGED <<rq, sh, tx, cfg, db, th, inst, hist>>

NextFaulty ==
    \E query \in Templates, values \in Values, fault \in Faults :
        CallExecuteFaulty(query, values, fault)

SpecFaulty == InitCall /\ [][NextFaulty]_vars

\* ===================================================================
\* Connections of requests and of connection() scopes (extension.py,
\* __init__.py, backends/aiosqlite.py class Backend)
\* ===================================================================
Req == 1 .. MaxRequests
Users == 1 .. MaxUsers
Conns == 1 .. MaxConns

\* "extension" is the QuartDB class of extension.py, "init" the one of
\* __init__.py.
QuartDBs == {"extension", "init"}

\* g.connection is None / no connection is held.
NoConnection == 0

\* Backend.__init__: no connection is tracked; released counts the calls of
\* release() per connection.
NewBackend ==
    [connections |-> {}, next |-> 1, released |-> [c \in Conns |-> 0]]

\* Backend.acquire: open a connection and add it to _connections.
acquire(b) == [b EXCEPT !.connections = @ \cup {b.next}, !.next = @ + 1]

\* Backend.release: close the connection and remove it from _connections.
release(b, c) ==
    [b EXCEPT !.connections = @ \ {c}, !.released[c] = @ + 1]

\* A faulty variant: teardown_request that does not release.
teardown_request_skip(b, g) == b

\* teardown_request 147-150: release g.connection when it is set.
teardown_request(b, g) == IF g # NoConnection THEN release(b, g) ELSE b

\* Leaving the connection() scope with connection c after the body ended with
\* e.  extension.py 191-194 releases in a finally; __init__.py 160-164 has the
\* release after the yield, where only a body that ended normally arrives.
connection_exit(class, b, c, e) ==
    IF class = "extension" \/ e = "none" THEN release(b, c) ELSE b

IdleRequest == [pc |-> "idle", connection |-> NoConnection, exc |-> "none"]

IdleUser == [pc |-> "out", conn |-> NoConnection, exc |-> "none"]

NewRequests(class, auto) ==
    [class |-> class, auto |-> auto, backend |-> NewBackend,
     req |-> [r \in Req |-> IdleRequest], user |-> [u \in Users |-> IdleUser]]

\* The host receives a request and pushes its context: g is empty.  No more
\* requests are admitted than there are connections left to hand out.
RequestStart(r) ==
    /\ rq.req[r].pc = "idle"
    /\ rq.backend.next
         + Cardinality({x \in Req : rq.req[x].pc = "before_request"}) <= MaxConns
    /\ rq' = [rq EXCEPT !.req[r] = [IdleRequest EXCEPT !.pc = "before_request"]]
    /\ UNCHANGED <<sh, op, tx, cfg, db, th, inst, hist>>

\* before_request 144-145, registered when QUART_DB_AUTO_REQUEST_CONNECTION
\* is set: g.connection = await self.acquire().  When acquire raises, g stays
\* empty and the handler is not called.
BeforeRequest(r) ==
    /\ rq.req[r].pc = "before_request"
    /\ IF ~rq.auto
       THEN rq' = [rq EXCEPT !.req[r].pc = "handler"]
       ELSE \E ok \in BOOLEAN :
              rq' = IF ok
                    THEN [rq EXCEPT !.backend = acquire(rq.backend),
                                    !.req[r].connection = rq.backend.next,
                                    !.req[r].pc = "handler"]
                    ELSE [rq EXCEPT !.req[r].pc = "teardown",
                                    !.req[r].exc = "error"]
    /\ UNCHANGED <<sh, op, tx, cfg, db, th, inst, hist>>

\* The route handler returns, raises or is cancelled (test_basic.py 35-37).
Handler(r, e) ==
    /\ rq.req[r].pc = "handler"
    /\ rq' = [rq EXCEPT !.req[r].pc = "teardown", !.req[r].exc = e]
    /\ UNCHANGED <<sh, op, tx, cfg, db, th, inst, hist>>

\* The host pops the request context, on every way out of the request, and
\* calls the teardown functions: teardown_request 147-150.  exc keeps the way
\* the request ended until the next one starts.
TeardownRequest(r) ==
    /\ rq.req[r].pc = "teardown"
    /\ rq' = IF rq.auto
             THEN [rq EXCEPT !.backend = teardown_request(rq.backend,
                                                          rq.req[r].connection),
                             !.req[r].connection = NoConnection,
                             !.req[r].pc = "idle"]
             ELSE [rq EXCEPT !.req[r].pc = "idle"]
    /\ UNCHANGED <<sh, op, tx, cfg, db, th, inst, hist>>

InitRequest ==
    /\ rq \in {NewRequests("extension", auto) : auto \in BOOLEAN}
    /\ op = NoCall
    /\ sh = NoShared
    /\ tx = NewConnection("aiosqlite")
    /\ EngineOff

NextRequest ==
    \/ \E r \in Req : RequestStart(r)
    \/ \E r \in Req : BeforeRequest(r)
    \/ \E r \in Req, e \in {"none", "error", "cancelled"} : Handler(r, e)
    \/ \E r \in Req : TeardownRequest(r)

SpecRequest == InitRequest /\ [][NextRequest]_vars

\* async with quart_db.connection() as connection: conn = await
\* self.acquire(), then the generator yields conn to the body.
ConnectionEnter(u) ==
    /\ rq.user[u].pc = "out"
    /\ rq.backend.next <= MaxConns
    /\ rq' = [rq EXCEPT !.backend = acquire(rq.backend),
                        !.user[u] = [pc |-> "body", conn |-> rq.backend.next,
                                     exc |-> "none"]]
    /\ UNCHANGED <<sh, op, tx, cfg, db, th, inst, hist>>

\* The body of the async with ends: normally, with an exception, or with the
\* cancellation of its task.
ConnectionBody(u, e) ==
    /\ rq.user[u].pc = "body"
    /\ rq' = [rq EXCEPT !.user[u].pc = "exit", !.user[u].exc = e]
    /\ UNCHANGED <<sh, op, tx, cfg, db, th, inst, hist>>

\* The context manager resumes the generator (or throws the body's exception
\* into it at the yield) and the scope is left.  exc keeps the way the body
\* ended until the scope is entered again.
ConnectionExit(u) ==
    /\ rq.user[u].pc = "exit"
    /\ rq' = [rq EXCEPT !.backend = connection_exit(rq.class, rq.backend,
                                                    rq.user[u].conn,
                                                    rq.user[u].exc),
                        !.user[u].conn = NoConnection,
                        !.user[u].pc = "out"]
    /\ UNCHANGED <<sh, op, tx, cfg, db, th, inst, hist>>

InitScope ==
    /\ rq \in {NewRequests(class, FALSE) : class \in QuartDBs}
    /\ op = NoCall
    /\ sh = NoShared
    /\ tx = NewConnection("aiosqlite")
    /\ EngineOff

NextScope ==
    \/ \E u \in Users : ConnectionEnter(u)
    \/ \E u \in Users, e \in {"none", "error", "cancelled"} : ConnectionBody(u, e)
    \/ \E u \in Users : ConnectionExit(u)

SpecScope == InitScope /\ [][NextScope]_vars

\* ===================================================================
\* Properties of the migration engine
\* ===================================================================
RowExists == db.tbl = "new" /\ db.rows = 1

\* The step is the COMMIT of t's transaction.
Commits(t) ==
    /\ th[t].pc = "commit" /\ th[t].intx
    /\ th'[t].pc \in {"start", "release"} /\ ~th'[t].intx

\* In the transaction t has open, the phase found no unit of the next version.
NoNextUnit(t) ==
    /\ th[t].phase \in Phases
    /\ th[t].readv >= -1
    /\ ~Exists(t[1], th[t].readv + 1)

\* C1: in each phase a unit of version N is applied only inside a transaction
\* that read the phase's counter as N-1, and every committed application
\* raises that counter by exactly one; a counter of the state row never
\* decreases, never skips a version and never changes without a unit having
\* been applied (all its statements, or its background hook when it has one)
\* in the committing transaction.
C1_State ==
    \A t \in Thread :
        th[t].pc \in {"body", "valid", "update"} /\ th[t].phase \in Phases =>
            /\ th[t].intx /\ th[t].scope = "open"
            /\ th[t].unit = th[t].readv + 1
            /\ Exists(t[1], th[t].unit)

C1_Step ==
    \A p \in Phases :
        /\ (RowExists /\ RowExists' /\ Counter(db', p) # Counter(db, p)) =>
              /\ Counter(db', p) = Counter(db, p) + 1
              /\ \E t \in Thread :
                    /\ Commits(t) /\ th[t].phase = p /\ th[t].wrote
                    /\ th[t].unit = Counter(db', p)
                    /\ th[t].readv = Counter(db, p)
                    /\ p = "foreground" =>
                          /\ th[t].stmts = NStmts
                          /\ <<p, "migrate", th[t].unit>> \in inst[t[1]].calls
                    /\ (p = "background" /\ th[t].unit \in cfg.hooks) =>
                          <<p, "background_migrate", th[t].unit>> \in inst[t[1]].calls
        /\ \A t \in Thread :
              (Commits(t) /\ th[t].phase = p /\ th[t].wrote) =>
                  /\ Counter(db', p) = Counter(db, p) + 1
                  /\ hist'.incs[p][th[t].unit] = hist.incs[p][th[t].unit] + 1

C1_CountersAdvanceByOne == []C1_State /\ [][C1_Step]_vars

C1_Witness ==
    /\ RowExists /\ db.foreground = 1 /\ db.background = 1
    /\ hist.incs["foreground"][1] = 1 /\ hist.incs["background"][1] = 1
    /\ \E i \in Inst : inst[i].run = 2 /\ th[Main(i)].pc = "failed"

\* C2: on a backend with supports_for_update, for every interleaving of two
\* instances migrating the same database, each unit version is committed at
\* most once per phase: a committed unit is never applied again.
C2_CommittedOnce ==
    supports_for_update =>
        \A p \in Phases : \A v \in Versions : hist.incs[p][v] <= 1

\* C3: a timeout of the migration leaves no partial state: the statements of a
\* unit are committed exactly with its counter increment (with a state table
\* that was created by this engine, foreground = k together with exactly the
\* statements of the units 0..k), and before_serving raises
\* MigrationTimeoutError without connecting the backend.
C3_NoPartialState ==
    /\ \A v \in Versions : db.stmts[v] = NStmts * hist.incs["foreground"][v]
    /\ (db.legacy = -1 /\ RowExists) =>
          \A v \in Versions :
              db.stmts[v] = IF v <= db.foreground THEN NStmts ELSE 0
    /\ \A i \in Inst :
          (th[Main(i)].pc = "failed" /\ th[Main(i)].err = "cancelled") =>
              Raised(i) = "MigrationTimeoutError" /\ ~inst[i].connected

C3_Witness ==
    \E i \in Inst :
        /\ th[Main(i)].phase = "foreground" /\ th[Main(i)].pc = "release"
        /\ th[Main(i)].err = "cancelled" /\ th[Main(i)].stmts = 1
        /\ th[Main(i)].unit = 1 /\ db.foreground = 0

\* The local folder holds unit 2 and lacks unit 1.
Gap(i) == 2 \in cfg.units[i] /\ 1 \notin cfg.units[i] /\ 0 \in cfg.units[i]

\* C4, as stated: with unit 2 present, unit 1 absent and the counter read as
\* 0, the phase fails with "Database is ahead of local migrations".
C4_FailsAhead ==
    \A t \in Thread :
        (Gap(t[1]) /\ NoNextUnit(t) /\ th[t].readv = 0) => th[t].err = "ahead"

\* C4, amended: with unit 2 present, unit 1 absent and the counter read as 0,
\* the phase stops without an error (a timeout aside) and without applying
\* unit 2 or writing anything.
C4_StopsSilently ==
    \A t \in Thread :
        (Gap(t[1]) /\ NoNextUnit(t) /\ th[t].readv = 0) =>
            /\ th[t].final
            /\ th[t].err \in {"none", "cancelled"}
            /\ th[t].unit = -1 /\ ~th[t].wrote /\ th[t].stmts = 0

C4_Witness ==
    \E t \in Thread :
        /\ Gap(t[1]) /\ th[t].phase = "foreground" /\ th[t].readv = 0
        /\ th[t].pc = "release" /\ th[t].final /\ th[t].err = "none"
        /\ db.foreground = 0 /\ db.stmts[2] = 0

\* C5: when the counter read is c >= 0 and neither unit c+1 nor unit c exists
\* locally the phase fails with "Database is ahead of local migrations";
\* when unit c+1 is absent and unit c exists (or c = -1) the phase stops
\* without an error; in both cases no step of the phase changes the database.
C5_State ==
    \A t \in Thread :
        NoNextUnit(t) =>
            /\ th[t].unit = -1 /\ ~th[t].wrote /\ th[t].stmts = 0
            /\ IF th[t].readv >= 0 /\ ~Exists(t[1], th[t].readv)
               THEN /\ ~th[t].final
                    /\ th[t].pc \in {"rollback", "release", "failed"}
                    /\ th[t].err \in {"ahead", "cancelled"}
                    /\ th[t].pc = "rollback" => th[t].err = "ahead"
               ELSE /\ th[t].final
                    /\ th[t].err \in {"none", "cancelled"}

C5_Step ==
    \A t \in Thread : (NoNextUnit(t) /\ th'[t] # th[t]) => db' = db

C5_AheadOrStop == []C5_State /\ [][C5_Step]_vars

C5_Witness ==
    \E i \in Inst :
        /\ th[Main(i)].pc = "failed" /\ th[Main(i)].err = "ahead"
        /\ Raised(i) = "MigrationFailedError"
        /\ th[Main(i)].readv >= 0 /\ db.foreground = th[Main(i)].readv

\* C6: a run of the engine that follows a run which went through every phase
\* without an error, with the same units, changes nothing in the database and
\* invokes no migrate, background_migrate or seed operation.
C6_Step ==
    \A i \in Inst :
        (inst[i].again /\ inst'[i].again) => db' = db /\ inst'[i].calls = {}

C6_SecondRunIdle == [][C6_Step]_vars

C6_Witness ==
    \E i \in Inst :
        /\ inst[i].again /\ inst[i].run = 2
        /\ th[Main(i)].pc = "serving" /\ th[Task(i)].pc = "done"
        /\ db.foreground = 1 /\ db.background = 1 /\ db.data_loaded

\* Fresh state table, units 0 and 1, only unit 0 with a background hook.
Scenario7(i) ==
    db.legacy = -1 /\ cfg.units[i] = {0, 1} /\ cfg.hooks = {0}

\* C7: in that scenario the background counter advances only once the
\* foreground counter is 1; the background phase invokes nothing but unit 0's
\* background_migrate; and when the background phase has returned the
\* background counter is 1, past unit 1 which has no hook.
C7_ForegroundThenBackground ==
    \A i \in Inst :
        Scenario7(i) =>
            /\ (RowExists /\ db.background >= 0) => db.foreground = 1
            /\ \A c \in inst[i].calls :
                  c[1] = "background" => c = <<"background", "background_migrate", 0>>
            /\ \/ th[Task(i)].pc = "done"
               \/ inst[i].mode = "cli" /\ th[Main(i)].phase = "loader"
               \/ inst[i].mode = "cli" /\ th[Main(i)].pc = "done"
               => db.foreground = 1 /\ db.background = 1

C7_Witness ==
    /\ Scenario7(1) /\ inst[1].run = 1
    /\ th[Task(1)].pc = "done" /\ db.foreground = 1 /\ db.background = 1
    /\ <<"background", "background_migrate", 0>> \in inst[1].calls
    /\ hist.incs["background"][1] = 1

\* C8: when unit k's validity check reports false, or its migrate raises, the
\* foreground phase fails with MigrationFailedError (or the raised error)
\* with the counter at k-1; no step of the failing phase changes the
\* database; and every committed application is of the unit that follows the
\* committed counter, so a later run resumes at unit k.
C8_State ==
    \A t \in Thread :
        th[t].err \in {"invalid", "apply"} =>
            /\ th[t].phase = "foreground"
            /\ th[t].pc \in {"release", "failed"}
            /\ th[t].unit = th[t].readv + 1
            /\ RowExists => db.foreground = th[t].unit - 1
            /\ db.stmts[th[t].unit] = NStmts * hist.incs["foreground"][th[t].unit]
            /\ th[t].pc = "failed" =>
                  /\ Raised(t[1]) = IF th[t].err = "invalid"
                                    THEN "MigrationFailedError" ELSE "apply"
                  /\ ~inst[t[1]].connected

C8_Step ==
    /\ \A t \in Thread :
          (th'[t].err \in {"invalid", "apply"} /\ th'[t] # th[t]) =>
              db' = db /\ hist' = hist
    /\ \A v \in Versions :
          hist'.incs["foreground"][v] # hist.incs["foreground"][v] =>
              v = db.foreground + 1 /\ db'.foreground = v

C8_FailedUnitNotCommitted == []C8_State /\ [][C8_Step]_vars

C8_Witness ==
    \E i \in Inst :
        /\ th[Main(i)].pc = "failed" /\ th[Main(i)].err = "invalid"
        /\ th[Main(i)].unit = 1 /\ db.foreground = 0
        /\ db.stmts[1] = 0 /\ db.stmts[0] = NStmts /\ inst[i].run = 2

\* C9: when a unit's migrate or validity check fails, or the phase is
\* cancelled, while the per-unit transaction scope is open, the scope's
\* rollback() has run before the migration connection is released and before
\* the failure leaves the phase function.
C9_RollbackBeforeRelease ==
    \A t \in Thread :
        (/\ th[t].err \in {"apply", "invalid", "cancelled"}
         /\ th[t].phase = "foreground"
         /\ th[t].conn = "closed" \/ th[t].pc = "failed")
        => th[t].scope \in {"none", "exited"}

\* ===================================================================
\* Properties of the transaction scopes
\* ===================================================================
\* C10: on every exit from a transaction scope exactly one of rollback() and
\* commit() has been called, once, and neither is called while the scope is
\* open: rollback() exactly when the body raised (an error or a cancellation)
\* or force_rollback was requested, commit() otherwise, i.e. only on a clean
\* exit with force_rollback false; and the failure of the body is still in
\* flight after the rollback.
C10_ExactlyOneCleanup ==
    /\ \A k \in 1 .. Len(tx.stack) :
          tx.stack[k].commits = 0 /\ tx.stack[k].rollbacks = 0
    /\ tx.last.exited =>
          /\ tx.last.commits + tx.last.rollbacks = 1
          /\ tx.last.rollbacks = 1 <=>
                (tx.last.force_rollback \/ tx.last.exc # "none")
          /\ tx.last.commits = 1 <=>
                (~tx.last.force_rollback /\ tx.last.exc = "none")
          /\ (tx.last.exc # "none" /\ tx.pc = "unwinding") =>
                tx.raised = tx.last.exc

\* The task was cancelled in a nested scope opened without force_rollback,
\* the scope was left and the cancellation is on its way to the outer scope.
C10_Witness ==
    /\ tx.last.exited /\ tx.last.exc = "cancelled" /\ ~tx.last.force_rollback
    /\ tx.last.rollbacks = 1 /\ tx.last.commits = 0
    /\ Len(tx.stack) = 1 /\ tx.pc = "unwinding" /\ tx.raised = "cancelled"
    /\ tx.session.in_transaction

\* The step leaves the innermost scope; Left is that scope's transaction and
\* EntrySession the session as it was when the scope was entered.
Exits == Len(tx.stack) > 0 /\ Len(tx'.stack) = Len(tx.stack) - 1

Left == tx.stack[Len(tx.stack)]

EntrySession == tx.entry[Len(tx.entry)]

\* The step enters a scope.
Enters == Len(tx'.stack) = Len(tx.stack) + 1

\* The name of the savepoint that stands for a nested level, 0 for the top
\* level.
LevelName(t) ==
    IF Len(t.savepoints) > 0 THEN t.savepoints[Len(t.savepoints)] ELSE t.name

\* C11: when a top-level transaction scope is left after its body failed, or
\* was opened with force_rollback, the session is what it was when the scope
\* was entered: the same committed contents, nothing pending, no transaction
\* open; and nothing is committed while a scope is open.
C11_Step ==
    /\ (Exits /\ Len(tx.stack) = 1
              /\ (Left.force_rollback \/ tx.raised # "none")) =>
           /\ tx'.session = EntrySession
           /\ ~tx'.session.in_transaction
           /\ tx'.session.pending = 0
    /\ (Len(tx.stack) > 0 /\ ~Exits) =>
           tx'.session.committed = tx.session.committed

C11_TopLevelRollback == [][C11_Step]_vars

\* Two statements ran in a top-level scope whose body then failed.
C11_Witness ==
    /\ tx.last.exited /\ tx.last.exc = "error" /\ tx.last.rollbacks = 1
    /\ Len(tx.stack) = 0 /\ tx.scopes = 1 /\ tx.ops = 2
    /\ tx.session.committed = 0 /\ ~tx.session.in_transaction

\* C12: a rollback at a nested level undoes exactly the statements issued
\* since that level's start(): what the enclosing levels had pending is still
\* pending, their savepoints are still live, the enclosing transaction stays
\* open and nothing is committed; the committed contents change only when
\* the top level commits.
C12_Step ==
    /\ (Exits /\ Len(tx.stack) >= 2) =>
           /\ tx'.session.in_transaction
           /\ tx'.session.committed = tx.session.committed
           /\ (Left.force_rollback \/ tx.raised # "none") =>
                  tx'.session.pending = EntrySession.pending
           /\ \A k \in 2 .. Len(tx.stack) - 1 :
                  Position(tx'.session, LevelName(tx.stack[k])) > 0
    /\ (Len(tx.stack) > 0 /\ tx'.session.committed # tx.session.committed) =>
           /\ Exits /\ Len(tx.stack) = 1
           /\ ~(Left.force_rollback \/ tx.raised # "none")
           /\ tx'.session.committed = tx.session.committed + tx.session.pending

C12_NestedRollback == [][C12_Step]_vars

\* The outer level issued one statement, the inner level one more and was
\* rolled back: the outer statement is still pending in the open transaction.
C12_Witness ==
    /\ tx.last.exited /\ tx.last.rollbacks = 1
    /\ Len(tx.stack) = 1 /\ tx.scopes = 2 /\ tx.ops = 2
    /\ tx.session.in_transaction /\ tx.session.pending = 1

\* The names of the savepoints live in the session.
Names(s) == {s.savepoints[k].name : k \in 1 .. Len(s.savepoints)}

\* C13: for properly nested start(), commit() and rollback() calls, start()
\* begins a top-level transaction exactly when none is open and otherwise
\* pushes a savepoint whose name differs from every live savepoint's; a
\* nested commit() releases that level's savepoint only and leaves the
\* enclosing levels and the top-level transaction open; the top-level
\* commit() ends the transaction; and the connection is idle exactly when
\* start() was called as often as commit() and rollback() together.
C13_State ==
    /\ ~tx.session.in_transaction <=> tx.scopes = tx.ended
    /\ \A i, j \in 1 .. Len(tx.session.savepoints) :
           tx.session.savepoints[i].name = tx.session.savepoints[j].name
               => i = j
    /\ \A k \in 2 .. Len(tx.stack) :
           Position(tx.session, LevelName(tx.stack[k])) > 0

C13_Step ==
    /\ Enters =>
           /\ tx'.scopes = tx.scopes + 1
           /\ tx'.session.in_transaction
           /\ IF Len(tx.stack) = 0
              THEN /\ ~tx.session.in_transaction
                   /\ tx'.session.savepoints = tx.session.savepoints
              ELSE /\ tx.session.in_transaction
                   /\ Len(tx'.session.savepoints)
                          = Len(tx.session.savepoints) + 1
                   /\ LevelName(tx'.stack[Len(tx'.stack)])
                          \notin Names(tx.session)
                   /\ LevelName(tx'.stack[Len(tx'.stack)])
                          \in Names(tx'.session)
    /\ (Exits /\ ~(Left.force_rollback \/ tx.raised # "none")) =>
           /\ tx'.ended = tx.ended + 1
           /\ IF Len(tx.stack) >= 2
              THEN /\ tx'.session.in_transaction
                   /\ tx'.session.pending = tx.session.pending
                   /\ LevelName(Left) \notin Names(tx'.session)
                   /\ \A k \in 2 .. Len(tx.stack) - 1 :
                          LevelName(tx.stack[k]) \in Names(tx'.session)
              ELSE /\ ~tx'.session.in_transaction
                   /\ tx'.session.savepoints = <<>>
                   /\ tx'.session.pending = 0

C13_ProperNesting == []C13_State /\ [][C13_Step]_vars

\* Three levels were open, the innermost committed: the two enclosing levels
\* are open, one savepoint is live and the statement is still pending.
C13_Witness ==
    /\ tx.last.exited /\ tx.last.commits = 1
    /\ Len(tx.stack) = 2 /\ tx.scopes = 3 /\ tx.ended = 1
    /\ Len(tx.session.savepoints) = 1
    /\ tx.session.in_transaction /\ tx.session.pending = 1

\* ===================================================================
\* Properties of tasks sharing one connection
\* ===================================================================
\* The step is the return of task k's commit() or rollback().
Closes(k) ==
    /\ sh.task[k].pc = "sent"
    /\ sh.task[k].call \in {"commit", "rollback"}
    /\ sh'.task[k].pc = "ready"

\* C14: the transactions on one connection are closed in the reverse of the
\* order they were opened in, whatever the interleaving of the tasks that
\* share the connection: the scope a commit() or rollback() closes is the
\* one opened last among the open ones.
C14_Step ==
    \A k \in Tasks :
        Closes(k) => /\ Len(sh.open) > 0
                     /\ sh.open[Len(sh.open)] = sh.task[k].cur.id

C14_ClosedInReverseOrder == [][C14_Step]_vars

\* C15: on the adapters that carry a lock (asyncpg, aiosqlite) a statement
\* is in flight only for the task that holds the lock, so at most one is in
\* flight; this includes BEGIN, COMMIT, ROLLBACK and the savepoint
\* statements.
C15_InFlightHoldsLock ==
    \A k \in Tasks : sh.task[k].pc = "sent" => sh.lock = k

\* ===================================================================
\* Properties of the query methods
\* ===================================================================
\* A call with one set of values has returned or raised.
Done1 ==
    /\ op.pc = "done"
    /\ op.method \in {"execute", "fetch_all", "fetch_first", "fetch_one",
                      "fetch_sole"}

\* C16: with a sequence of values the compiled text is the template and the
\* arguments are that sequence, none dropped; with absent values the text
\* is the template and there are no arguments; on every adapter.
C16_SequencePassedThrough ==
    Done1 =>
        /\ op.values.type = "list" =>
               /\ op.out.text = op.query
               /\ op.out.args = op.values.list
        /\ (op.values.type = "none" /\ NamedRefs(op.query) = {}) =>
               /\ op.out.text = op.query
               /\ op.out.args = <<>>

\* The referenced names a mapping lacks.
MissingKeys(query, values) ==
    {Key(query.refs[k]) : k \in Missing(query, values.dict)}

\* C17: a call whose mapping lacks a name the template refers to raises
\* UndefinedParameterError, the error names a missing key, whatever other
\* keys the mapping has, and the table is what it was before the call.
C17_MissingNameRaises ==
    (Done1 /\ op.values.type = "dict"
           /\ MissingKeys(op.query, op.values) # {}) =>
        /\ op.out.raised = "UndefinedParameterError"
        /\ op.out.message \in MissingKeys(op.query, op.values)
        /\ op.out.table = op.before
        /\ ~op.out.ran

\* The template refers to :a, the mapping has b only (another key).
C17_Witness ==
    /\ op.pc = "done" /\ op.method = "execute"
    /\ op.query = [verb |-> "INSERT", refs |-> <<":a">>]
    /\ op.values.type = "dict" /\ DOMAIN op.values.dict = {"b"}
    /\ op.out.raised = "UndefinedParameterError" /\ op.out.message = "a"
    /\ op.out.table = op.before

\* C18: fetch_first (fetch_one in backends/asyncpg.py and connection.py)
\* returns none when the statement matches no row and the first matching
\* row when it matches one or more; the number of rows never makes it
\* raise.
C18_FirstRowOrNone ==
    (op.pc = "done" /\ op.method \in {"fetch_first", "fetch_one"}
                    /\ op.out.ran) =>
        /\ op.out.raised = "none"
        /\ Len(op.out.rows) = 0 => op.out.result = <<>>
        /\ Len(op.out.rows) >= 1 => op.out.result = <<op.out.rows[1]>>

\* Two different rows match and the first is returned.
C18_Witness ==
    /\ op.pc = "done" /\ op.method = "fetch_first"
    /\ op.out.ran /\ Len(op.out.rows) = 2
    /\ op.out.rows[1] # op.out.rows[2]
    /\ op.out.result = <<op.out.rows[1]>>

SameNames ==
    \A i \in 1 .. Len(op.sets) :
        DOMAIN op.sets[i].dict = {Key(op.query.refs[k]) :
                                     k \in 1 .. Len(op.query.refs)}

\* The row an INSERT adds for a value-set.
RowOf(query, values) ==
    [k \in 1 .. Len(query.refs) |-> values.dict[Key(query.refs[k])]]

\* C20: after execute_many of an INSERT with N value-sets of the same names,
\* fetch_all returns the rows there were and exactly N new rows, of which
\* row i carries value-set i.
C20_OneRowPerValueSet ==
    (op.pc = "done" /\ op.method = "execute_many"
        /\ op.query.verb = "INSERT" /\ NamedRefs(op.query) # {}
        /\ SameNames) =>
        /\ op.out.raised = "none"
        /\ LET got == fetch_all(op.class, SelectAll, None, op.out.table)
           IN  /\ got.raised = "none"
               /\ Len(got.result) = Len(op.before) + Len(op.sets)
               /\ SubSeq(got.result, 1, Len(op.before)) = op.before
               /\ \A i \in 1 .. Len(op.sets) :
                      got.result[Len(op.before) + i]
                          = RowOf(op.query, op.sets[i])

\* Two value-sets with different values were inserted.
C20_Witness ==
    /\ op.pc = "done" /\ op.method = "execute_many"
    /\ op.query = [verb |-> "INSERT", refs |-> <<":a">>]
    /\ Len(op.sets) = 2 /\ SameNames
    /\ op.sets[1] # op.sets[2]
    /\ op.out.table = op.before \o <<RowOf(op.query, op.sets[1]),
                                     RowOf(op.query, op.sets[2])>>

\* C21: for every query and values, on every adapter, iterate yields the
\* rows fetch_all returns for the same query and values, in the same order,
\* each once, and then ends (and fails where fetch_all fails).
C21_IterateAsFetchAll ==
    (op.pc = "done" /\ op.method = "iterate") =>
        LET all == fetch_all(op.class, op.query, op.values, op.before)
        IN  /\ op.out.raised = all.raised
            /\ op.out.result = all.result

\* ===================================================================
\* Properties of the data loader and of the phases of a run
\* ===================================================================
\* The data loader of instance i failed with data_loaded false.
LoaderFailed(i) ==
    /\ th[Main(i)].phase = "loader" /\ th[Main(i)].pc = "failed"
    /\ th[Main(i)].err \in {"load", "seed", "cancelled"}
    /\ RowExists /\ ~db.data_loaded

\* C22: when the data loader fails while data_loaded is false (the seed
\* unit cannot be loaded, its entry point raises, or the run is cancelled)
\* data_loaded stays false, no statement of the seed unit is committed and
\* the failure is reported as MigrationFailedError.
C22_LoadFailureReported ==
    \A i \in Inst :
        LoaderFailed(i) =>
            /\ db.seeds = 0
            /\ Raised(i) = "MigrationFailedError"

\* The seed unit's entry point is invoked in this step.
SeedInvoked ==
    \E t \in Thread : th[t].pc = "seed" /\ th'[t].pc # "seed"
                      /\ th'[t].err # "cancelled"

\* C23: data_loaded never goes from true to false, the seed unit's entry
\* point is not invoked once data_loaded is true, and on a backend with row
\* locks a succeeding seed run is committed at most once, whatever the
\* interleaving of the instances.
C23_Step ==
    /\ db.data_loaded => db'.data_loaded
    /\ SeedInvoked => ~db.data_loaded

C23_LoadedOnce ==
    [](supports_for_update => db.seeds <= 1) /\ [][C23_Step]_vars

\* The seed unit's entry point was invoked in the current run of instance i.
SeedCalled(i) == <<"loader", "execute", 0>> \in inst[i].calls

\* Unit v was committed by a foreground phase (or before the legacy table was
\* replaced).
ForegroundCommitted(v) == hist.incs["foreground"][v] >= 1

\* C24, as stated: the seed unit's entry point is invoked only after every
\* locally present foreground unit has been committed, and never in a run
\* whose foreground phase failed.
C24_AfterAllLocalUnits ==
    \A i \in Inst :
        SeedCalled(i) =>
            /\ th[Main(i)].phase \notin {"boot", "foreground"}
            /\ \A v \in cfg.units[i] : ForegroundCommitted(v)

\* C24, amended: the seed unit's entry point is invoked only after the
\* foreground phase of the run returned without an error, that is with every
\* locally present unit up to the foreground counter committed and no local
\* unit following the counter; a local unit beyond a missing one may remain
\* unapplied.
C24_AfterForegroundReturned ==
    \A i \in Inst :
        SeedCalled(i) =>
            /\ th[Main(i)].phase \notin {"boot", "foreground"}
            /\ RowExists /\ db.foreground + 1 \notin cfg.units[i]
            /\ \A v \in cfg.units[i] : v <= db.foreground => ForegroundCommitted(v)

C24_Witness ==
    /\ SeedCalled(1) /\ inst[1].run = 1 /\ cfg.units[1] = {0, 1}
    /\ db.legacy = -1 /\ db.foreground = 1
    /\ ForegroundCommitted(0) /\ ForegroundCommitted(1)
    /\ th[Main(1)].phase = "loader" /\ th[Main(1)].pc = "update"

\* before_serving of instance i failed in the bootstrap or in the foreground
\* phase.
StartupFailed(i) ==
    /\ inst[i].mode = "serve" /\ th[Main(i)].pc = "failed"
    /\ th[Main(i)].phase \in {"boot", "foreground"}

\* C25: when the bootstrap or a foreground migration fails or times out
\* during before_serving, the failure leaves before_serving, connect() is not
\* called, and neither the background phase nor the data loader is started.
C25_State ==
    \A i \in Inst :
        StartupFailed(i) =>
            /\ Raised(i) # "none"
            /\ ~inst[i].connected
            /\ th[Task(i)] = IdleThread
            /\ \A c \in inst[i].calls : c[1] = "foreground"

C25_Step ==
    \A i \in Inst :
        (StartupFailed(i) /\ inst'[i].run = inst[i].run) =>
            /\ StartupFailed(i)'
            /\ inst'[i] = inst[i]

C25_FailureAbortsStartup == []C25_State /\ [][C25_Step]_vars

C25_Witness ==
    /\ StartupFailed(1) /\ th[Main(1)].phase = "foreground"
    /\ th[Main(1)].err = "apply" /\ th[Main(1)].unit = 1
    /\ db.foreground = 0 /\ ~inst[1].connected /\ th[Task(1)] = IdleThread

\* The background hook of the unit coroutine t holds has raised.
HookFailed(t) == th[t].phase = "background" /\ th[t].err = "hook"

\* What the failure of a hook leaves behind, seen from instance i: the main
\* coroutine carries no hook error, and the background counter stands at the
\* unit before the one whose hook raised.
Confined(i, t) ==
    /\ th[Main(i)].err # "hook"
    /\ RowExists /\ db.background = th[t].unit - 1

\* C26, as stated: the failure of a background hook never raises out of
\* migrate() or before_serving, and leaves the background counter at the
\* last committed background step.
C26_HookFailureConfined ==
    \A t \in Thread : HookFailed(t) => Confined(t[1], t)

\* C26, amended: when the background phase runs as a background task
\* (before_serving, force_foreground false) the failure of a hook stays in
\* the task: the step in which it raises and the steps of the task after it
\* leave the main coroutine and the database as they are, and the background
\* counter stands at the last committed background step.  With
\* force_foreground (db-migrate) the error leaves migrate().
C26_State ==
    \A t \in Thread :
        HookFailed(t) =>
            IF inst[t[1]].mode = "serve"
            THEN t = Task(t[1]) /\ Confined(t[1], t)
            ELSE /\ t = Main(t[1]) /\ db.background = th[t].unit - 1
                 /\ th[t].pc = "failed" => Raised(t[1]) = "hook"

C26_Step ==
    \A i \in Inst :
        (inst[i].mode = "serve" /\ HookFailed(Task(i))' /\ th'[Task(i)] # th[Task(i)]
         /\ inst'[i].run = inst[i].run) =>
            /\ th'[Main(i)] = th[Main(i)]
            /\ db' = db

C26_HookFailureInTask == []C26_State /\ [][C26_Step]_vars

C26_Witness ==
    /\ inst[1].mode = "serve" /\ HookFailed(Task(1)) /\ th[Task(1)].pc = "failed"
    /\ th[Task(1)].unit = 0 /\ db.background = -1 /\ db.foreground = 1
    /\ th[Main(1)].pc = "serving" /\ inst[1].connected /\ db.data_loaded

\* The three values of the state row.
RowValues == <<db.foreground, db.background, db.data_loaded>>

\* A step of ensure_state_table.
BootStep == \E t \in Thread : th[t].phase = "boot" /\ th'[t] # th[t]

\* C27: once a bootstrap has put the row into the new-shape state table, the
\* table holds exactly one row in every later state: no bootstrap, migration
\* or data load, repeated or raced, inserts a second row or deletes the row,
\* and a bootstrap on the new-shape table leaves the three values as they
\* are.
C27_Step ==
    RowExists =>
        /\ RowExists'
        /\ BootStep => RowValues' = RowValues

C27_SingleRow == [](db.rows <= 1) /\ [][C27_Step]_vars

\* The bootstrap of coroutine t read version v from a legacy table and has
\* run its INSERT without an error.
BootstrappedLegacy(t) ==
    /\ th[t].phase = "boot" /\ th[t].pc = "b_release"
    /\ th[t].err = "none" /\ th[t].version >= 0

\* C28: a bootstrap that finds the legacy table with version v leaves a
\* new-shape table whose single row is (foreground v, background v,
\* data_loaded false); the phases that follow it look for unit v+1 first and
\* apply no unit up to v.
C28_LegacySeedsCounters ==
    /\ \A t \in Thread :
          BootstrappedLegacy(t) =>
              /\ th[t].version = db.legacy
              /\ RowExists /\ RowValues = <<db.legacy, db.legacy, FALSE>>
    /\ \A i \in Inst :
          (inst[i].run = 1 /\ db.legacy >= 0) =>
              /\ \A c \in inst[i].calls : c[1] \in Phases => c[3] > db.legacy
              /\ \A t \in {Main(i), Task(i)} :
                    th[t].readv # -2 => th[t].readv >= db.legacy

C28_Witness ==
    /\ db.legacy = 0 /\ inst[1].run = 1 /\ cfg.units[1] = {0, 1}
    /\ th[Main(1)].phase = "foreground" /\ th[Main(1)].pc = "release"
    /\ th[Main(1)].final /\ th[Main(1)].err = "none"
    /\ inst[1].calls = {<<"foreground", "migrate", 1>>}
    /\ db.foreground = 1 /\ db.background = 0 /\ ~db.data_loaded
    /\ db.stmts[0] = NStmts /\ db.stmts[1] = NStmts

\* ===================================================================
\* Properties of the connections of requests and scopes
\* ===================================================================
\* The connections the backend has handed out so far.
HandedOut == 1 .. (rq.backend.next - 1)

\* The connections held by requests in flight.
HeldByRequests == {rq.req[r].connection : r \in Req} \ {NoConnection}

\* C29: with automatic request connections, the connection before_request
\* acquired for a request is released exactly once when the request is over,
\* whether the handler returned, raised or was cancelled, and not before;
\* the backend tracks no connection when no request is in flight.
C29_RequestConnectionReleased ==
    rq.auto =>
        /\ \A c \in HandedOut :
              IF c \in HeldByRequests
              THEN rq.backend.released[c] = 0 /\ c \in rq.backend.connections
              ELSE rq.backend.released[c] = 1 /\ c \notin rq.backend.connections
        /\ (\A r \in Req : rq.req[r].pc = "idle") => rq.backend.connections = {}

C29_Witness ==
    /\ rq.auto /\ rq.backend.next = 3 /\ rq.backend.connections = {}
    /\ rq.req[1].pc = "idle" /\ rq.req[1].exc = "cancelled"
    /\ rq.req[2].pc = "idle" /\ rq.req[2].exc = "error"
    /\ rq.backend.released[1] = 1 /\ rq.backend.released[2] = 1

\* The connections held by connection() scopes that have not been left.
HeldByScopes == {rq.user[u].conn : u \in Users} \ {NoConnection}

\* C30: a connection handed out by the connection() scope is released
\* exactly once when the scope is left, whether the body ended normally,
\* raised or was cancelled, and not before.
C30_ScopeConnectionReleased ==
    \A c \in HandedOut :
        IF c \in HeldByScopes
        THEN rq.backend.released[c] = 0
        ELSE rq.backend.released[c] = 1

\* ===================================================================
\* Properties of the errors, the savepoints and the connection lock
\* ===================================================================
\* A reference of the query has no value among the values of the call.
NoValue(query, values) ==
    IF values.type = "dict" THEN Missing(query, values.dict) # {}
    ELSE Len(values.list) < Len(query.refs)

\* C31: an operation raises UndefinedParameterError only when a name or a
\* position the query refers to has no value; any other error of the driver
\* (syntax error, missing table, closed session) reaches the caller as the
\* driver raised it.
C31_OtherErrorsUnchanged ==
    (op.pc = "done" /\ op.class # "connection") =>
        /\ op.out.raised = "UndefinedParameterError" =>
              op.out.fault = "none" /\ NoValue(op.query, op.values)
        /\ op.out.kind # "none" => op.out.raised = op.out.kind

\* The nested levels open on the connection: every open scope but the
\* outermost one.
NestedLevels == IF Len(tx.stack) = 0 THEN 0 ELSE Len(tx.stack) - 1

\* C32: on an aiosqlite connection the savepoints live on the session are as
\* many as the nested levels still open; a nested rollback() removes the
\* savepoint of its level from the session.
C32_SavepointsMatchLevels ==
    tx.adapter = "aiosqlite" => Len(tx.session.savepoints) = NestedLevels

\* What _compile gives for each value-set of the call.
Compiled == [i \in 1 .. Len(op.sets) |-> compile(op.class, op.query, op.sets[i])]

\* Every value-set is a mapping of the names the template refers to.
AllNamed ==
    /\ NamedRefs(op.query) # {}
    /\ \A i \in 1 .. Len(op.sets) : op.sets[i].type = "dict"
    /\ SameNames

\* C33: execute_many compiles every value-set by itself, sends the text
\* compiled from the first one with the argument lists of all of them, and
\* raises nothing for a value-set that compiled to another text: it fails
\* only when the driver cannot bind an argument list to the first text.  With
\* value-sets that all name the template's references, statement i runs with
\* the arguments of value-set i.
C33_FirstTextAllArguments ==
    (op.pc = "done" /\ op.method = "execute_many" /\ op.sets # <<>>
        /\ \A i \in 1 .. Len(op.sets) : Compiled[i].raised = "none") =>
        /\ op.out.text = Compiled[1].text
        /\ op.out.args = [i \in 1 .. Len(op.sets) |-> Compiled[i].args]
        /\ op.out.raised = "none" <=>
              \A i \in 1 .. Len(op.sets) :
                  Len(Compiled[i].args) = Len(Compiled[1].text.refs)
        /\ (AllNamed /\ op.query.verb = "INSERT") =>
              op.out.table = op.before \o
                  [i \in 1 .. Len(op.sets) |-> RowOf(op.query, op.sets[i])]

\* A mapping and a sequence in one call: the texts differ, nothing is raised
\* and both statements run with their own arguments.
C33_Witness ==
    /\ op.pc = "done" /\ op.method = "execute_many" /\ op.class = "asyncpg"
    /\ op.query = [verb |-> "INSERT", refs |-> <<":a">>]
    /\ Len(op.sets) = 2
    /\ op.sets[1].type = "dict" /\ op.sets[2].type = "list"
    /\ Compiled[1].text # Compiled[2].text
    /\ op.out.raised = "none" /\ op.out.args = <<<<2>>, <<3>>>>
    /\ op.out.table = <<<<2>>, <<3>>>>

\* C34: whenever the state row exists, its background counter is at most its
\* foreground counter, however the runs of the instances interleave.
C34_BackgroundBehindForeground ==
    RowExists => db.background <= db.foreground

\* C35: a coroutine that has left ensure_state_table or a phase function, by
\* return, by an error or by cancellation, holds no migration connection:
\* the connection it acquired has been released.
C35_MigrationConnectionReleased ==
    \A t \in Thread :
        th[t].pc \in {"failed", "done", "connect", "serving"} =>
            th[t].conn # "open"

\* C36: on a database that started with the legacy table at version v, every
\* bootstrap that completes, the one after an interrupted bootstrap included,
\* leaves a row whose counters are at least v, and no run applies a unit up
\* to v again.
C36_LegacyVersionKept ==
    db.legacy >= 0 =>
        /\ \A t \in Thread :
              (th[t].phase = "boot" /\ th[t].pc = "b_release"
                  /\ th[t].err = "none") =>
                  /\ RowExists
                  /\ db.foreground >= db.legacy /\ db.background >= db.legacy
        /\ \A i \in Inst :
              \A c \in inst[i].calls : c[1] \in Phases => c[3] > db.legacy

\* C37: on an aiosqlite connection shared by two tasks, the BEGIN of a
\* start() never reaches the database while a transaction is open on the
\* session: one task begins the transaction and the other sets a savepoint.
C37_BeginOnlyWhenIdle ==
    sh.adapter = "aiosqlite" =>
        \A k \in Tasks :
            (sh.task[k].pc = "sent" /\ sh.task[k].stmt = "BEGIN"
                /\ Head(sh.queue) = k) =>
                ~sh.session.in_transaction

\* No call is in progress on the connection and no generator of iterate()
\* is open.
NothingInProgress ==
    \A k \in Tasks :
        sh.task[k].pc = "ready" /\ sh.task[k].gen \in {"none", "new", "closed"}

\* A call of task k waits for the lock or for the driver.
Pending(k) == sh.task[k].pc \in {"lock", "sent"}

\* C38: every operation on a connection with a lock gets the lock and
\* completes, a call made in the body of a loop over iterate() on the same
\* connection included.
C38_EveryOperationCompletes ==
    \A k \in Tasks : Pending(k) ~> sh.task[k].pc = "ready"

\* C39: whenever no operation is in progress and every generator of
\* iterate() has been exhausted, has failed or has been closed, the lock is
\* free and nobody waits for it.
C39_LockNeverLeaked ==
    NothingInProgress => sh.lock = NoHolder /\ sh.waiters = <<>>

\* Task 1 left its loop early after a call in its body was cancelled and the
\* generator was finalized; task 2's call, which waited for the lock, raised.
C39_Witness ==
    /\ NothingInProgress
    /\ sh.task[1].gen = "closed" /\ sh.task[1].rows = 1
    /\ sh.task[1].last = "cancelled"
    /\ sh.task[2].last = "raised" /\ sh.task[2].ops = 1
    /\ sh.task[2].gen = "none"
    /\ sh.lock = NoHolder

\* Some unit failed to apply or to validate, or a statement failed.
Failure == \E t \in Thread : th[t].err # "none"

\* Every instance that entered the foreground phase has left it.
FleetDone ==
    \A i \in Inst : inst[i].run = 1 => th[Main(i)].phase # "foreground"

\* The units instance i applied in the foreground.
Applied(i) == {c \in inst[i].calls : c[1] = "foreground"}

Applications == Cardinality(Applied(1)) + Cardinality(Applied(2))

\* M, the newest local unit.
Newest == Cardinality(cfg.units[1]) - 1

\* C40: with units 0..M, counter c <= M and no failure, every instance's
\* foreground phase ends, and when all have ended the foreground counter is M,
\* M - c units were applied in total and each unit's increment was committed
\* once.
C40_ForegroundTerminates ==
    /\ <>(FleetDone \/ Failure)
    /\ [](~Failure => Applications <= Newest - hist.start)
    /\ []((FleetDone /\ ~Failure) =>
            /\ db.foreground = Newest
            /\ Applications = Newest - hist.start
            /\ \A v \in cfg.units[1] : hist.incs["foreground"][v] = 1)

\* Two instances raced from an empty counter over units 0 and 1 and each
\* applied one of them.
C40_Witness ==
    /\ FleetDone /\ ~Failure
    /\ supports_for_update /\ hist.start = -1 /\ cfg.units[1] = {0, 1}
    /\ Applied(1) = {<<"foreground", "migrate", 0>>}
    /\ Applied(2) = {<<"foreground", "migrate", 1>>}
    /\ db.foreground = 1

====
